---- MODULE Spec2Model ----
(***************************************************************************)
(* Email validation engine of vivid-valid: the RFC parser, the validator   *)
(* coordinator (EmailValidator.validate), the scorer and the SMTP prober.  *)
(* Strings are TLA+ strings; JavaScript's true / false / null in the       *)
(* ternary fields are the strings "true" / "false" / "null".               *)
(***************************************************************************)
EXTENDS Integers, Sequences, FiniteSets, TLC

(***************************************************************************)
(* String helpers (JavaScript String methods used by the validators).      *)
(***************************************************************************)
LowerAlpha == "abcdefghijklmnopqrstuvwxyz"
UpperAlpha == "ABCDEFGHIJKLMNOPQRSTUVWXYZ"
Digits == "0123456789"
\* the specials of the dot-atom character class, rfcParser.js:155 (the
\* backquote, which a TLA+ string cannot hold, is left out of the alphabet)
AtomSpecials == "!#$%&'*+/=?^_{|}~-"

CharAt(s, i) == SubSeq(s, i, i)

Includes(s, sub) ==
  \E i \in 1..(Len(s) - Len(sub) + 1) : SubSeq(s, i, i + Len(sub) - 1) = sub

StartsWith(s, p) == Len(p) <= Len(s) /\ SubSeq(s, 1, Len(p)) = p

EndsWith(s, p) == Len(p) <= Len(s) /\ SubSeq(s, Len(s) - Len(p) + 1, Len(s)) = p

\* every character of s belongs to the class cls
AllIn(s, cls) == \A i \in 1..Len(s) : Includes(cls, CharAt(s, i))

CountChar(s, c) == Cardinality({i \in 1..Len(s) : CharAt(s, i) = c})

\* String.prototype.indexOf for a single character, 0 when absent
IndexOf(s, c) ==
  IF CountChar(s, c) = 0 THEN 0
  ELSE CHOOSE i \in 1..Len(s) :
         CharAt(s, i) = c /\ \A j \in 1..(i - 1) : CharAt(s, j) # c

RECURSIVE Split(_, _)
\* String.prototype.split on a single-character separator
Split(s, c) ==
  IF CountChar(s, c) = 0 THEN <<s>>
  ELSE <<SubSeq(s, 1, IndexOf(s, c) - 1)>>
         \o Split(SubSeq(s, IndexOf(s, c) + 1, Len(s)), c)

LowerChar(c) ==
  IF Includes(UpperAlpha, c)
  THEN CharAt(LowerAlpha, IndexOf(UpperAlpha, c))
  ELSE c

RECURSIVE ToLower(_)
ToLower(s) == IF s = "" THEN "" ELSE LowerChar(CharAt(s, 1)) \o ToLower(Tail(s))

RECURSIVE Trim(_)
Trim(s) ==
  IF s = "" THEN ""
  ELSE IF CharAt(s, 1) = " " THEN Trim(Tail(s))
  ELSE IF CharAt(s, Len(s)) = " " THEN Trim(SubSeq(s, 1, Len(s) - 1))
  ELSE s

\* the regular expression p1.*p2 (in order, anywhere)
MatchesInOrder(s, p1, p2) ==
  \E i \in 1..(Len(s) - Len(p1) + 1) :
    /\ SubSeq(s, i, i + Len(p1) - 1) = p1
    /\ Includes(SubSeq(s, i + Len(p1), Len(s)), p2)

\* a run of at least n consecutive digits, /\d{n,}/
HasDigitRun(s, n) ==
  \E i \in 1..(Len(s) - n + 1) : AllIn(SubSeq(s, i, i + n - 1), Digits)

(***************************************************************************)
(* RFCParser                                                               *)
(***************************************************************************)
MaxEmailLength == 320
MaxLocalLength == 64
MaxDomainLength == 253
MaxLabelLength == 63

Ok == [valid |-> TRUE, reason |-> ""]
Reject(why) == [valid |-> FALSE, reason |-> why]

\* /^[atext]+(?:\.[atext]+)*$/ : non-empty atoms separated by single dots
IsDotAtom(localPart) ==
  LET atoms == Split(localPart, ".") IN
    \A i \in 1..Len(atoms) :
      /\ atoms[i] # ""
      /\ AllIn(atoms[i], LowerAlpha \o UpperAlpha \o Digits \o AtomSpecials)

RECURSIVE QuotedScan(_, _)
\* the while loop of validateQuotedLocalPart over content from index i;
\* characters of the model are ASCII, so the charCode > 127 branch is dead
QuotedScan(content, i) ==
  IF i > Len(content) THEN Ok
  ELSE IF CharAt(content, i) = "\\"
       THEN IF i + 1 > Len(content)
            THEN Reject("Invalid escape sequence in quoted local part")
            ELSE QuotedScan(content, i + 2)
  ELSE IF CharAt(content, i) = "\""
       THEN Reject("Unescaped quote in quoted local part")
  ELSE QuotedScan(content, i + 1)

validateQuotedLocalPart(localPart) ==
  QuotedScan(SubSeq(localPart, 2, Len(localPart) - 1), 1)

validateLocalPart(localPart, allowQuotedLocal) ==
  IF Len(localPart) > MaxLocalLength
  THEN Reject("Local part exceeds 64 characters")
  ELSE IF Len(localPart) = 0 THEN Reject("Local part cannot be empty")
  ELSE IF StartsWith(localPart, "\"") /\ EndsWith(localPart, "\"")
       THEN IF ~allowQuotedLocal
            THEN Reject("Quoted local parts not allowed in strict mode")
            ELSE validateQuotedLocalPart(localPart)
  ELSE IF StartsWith(localPart, ".") \/ EndsWith(localPart, ".")
       THEN Reject("Local part cannot start or end with a dot")
  ELSE IF Includes(localPart, "..")
       THEN Reject("Local part cannot contain consecutive dots")
  ELSE IF ~IsDotAtom(localPart)
       THEN Reject("Local part contains invalid characters")
  ELSE Ok

validateDomainLabel(label, isTopLevel) ==
  IF Len(label) > MaxLabelLength
  THEN Reject("Domain label exceeds 63 characters")
  ELSE IF Len(label) = 0 THEN Reject("Domain label cannot be empty")
  ELSE IF StartsWith(label, "-") \/ EndsWith(label, "-")
       THEN Reject("Domain label cannot start or end with hyphen")
  ELSE IF isTopLevel
       THEN IF ~AllIn(label, LowerAlpha \o UpperAlpha)
            THEN Reject("Top-level domain must contain only letters")
            ELSE IF Len(label) < 2
                 THEN Reject("Top-level domain must be at least 2 characters")
                 ELSE Ok
  ELSE IF ~AllIn(label, LowerAlpha \o UpperAlpha \o Digits \o "-")
       THEN Reject("Domain label contains invalid characters")
  ELSE Ok

\* /^(\d{1,3})\.(\d{1,3})\.(\d{1,3})\.(\d{1,3})$/ with octets <= 255; an
\* octet of up to three digits exceeds 255 iff it has three digits and is
\* lexicographically above "255"
OctetOk(o) ==
  /\ Len(o) \in 1..3
  /\ AllIn(o, Digits)
  /\ Len(o) = 3 =>
       LET d(i) == IndexOf(Digits, CharAt(o, i)) - 1 IN
         100 * d(1) + 10 * d(2) + d(3) <= 255

IsIPv4Shape(ip) ==
  LET parts == Split(ip, ".") IN
    /\ Len(parts) = 4
    /\ \A i \in 1..4 : Len(parts[i]) \in 1..3 /\ AllIn(parts[i], Digits)

\* /^([0-9a-fA-F]{0,4}:){2,7}[0-9a-fA-F]{0,4}$/
IsIPv6Shape(ip) ==
  LET groups == Split(ip, ":") IN
    /\ Len(groups) \in 3..8
    /\ \A i \in 1..Len(groups) :
         Len(groups[i]) <= 4 /\ AllIn(groups[i], Digits \o "abcdefABCDEF")

validateIPLiteral(ipLiteral) ==
  LET ip == SubSeq(ipLiteral, 2, Len(ipLiteral) - 1) IN
    IF IsIPv4Shape(ip)
    THEN IF \A i \in 1..4 : OctetOk(Split(ip, ".")[i])
         THEN Ok
         ELSE Reject("Invalid IPv4 address in domain literal")
    ELSE IF Includes(ip, ":") /\ IsIPv6Shape(ip) THEN Ok
    ELSE Reject("Invalid IP address in domain literal")

validateDomainPart(domain) ==
  IF Len(domain) > MaxDomainLength THEN Reject("Domain exceeds 253 characters")
  ELSE IF Len(domain) = 0 THEN Reject("Domain cannot be empty")
  ELSE IF StartsWith(domain, "[") /\ EndsWith(domain, "]")
       THEN validateIPLiteral(domain)
  ELSE LET labels == Split(domain, ".")
           bad == {i \in 1..Len(labels) :
                     ~validateDomainLabel(labels[i], i = Len(labels)).valid}
       IN IF Len(labels) < 2
          THEN Reject("Domain must have at least two labels")
          ELSE IF bad # {}
               THEN validateDomainLabel(
                      labels[CHOOSE i \in bad : \A j \in bad : i <= j],
                      (CHOOSE i \in bad : \A j \in bad : i <= j) = Len(labels))
               ELSE Ok

performAdvancedValidation(addr, localPart, domain, strictMode) ==
  LET labels == Split(domain, ".")
      tld == labels[Len(labels)]
  IN IF Includes(addr, " ") THEN Reject("Email contains unescaped spaces")
     ELSE IF Len(tld) < 2 \/ Len(tld) > 6
          THEN Reject("Invalid top-level domain length")
     ELSE IF strictMode /\ Includes(localPart, "+")
          THEN Reject("Plus addressing not allowed in strict mode")
     ELSE IF strictMode
             /\ ~AllIn(localPart, LowerAlpha \o UpperAlpha \o Digits \o "._-")
          THEN Reject("Local part contains unusual characters (strict mode)")
     ELSE Ok

\* punycode.toASCII: a label with a character outside ASCII is replaced by
\* xn-- and its Punycode encoding, every other label is left as it is.  The
\* encodings of the labels the model uses are tabulated
toASCII(domain) ==
  CASE domain = "münchen.de" -> "xn--mnchen-3ya.de"
    [] domain = "example.cöm" -> "example.xn--cm-fka"
    [] OTHER -> domain

isInternationalDomain(domain) == toASCII(domain) # domain

validateRFC(rawEmail, o) ==
  LET addr == Trim(rawEmail)
      atCount == CountChar(addr, "@")
      parts == Split(addr, "@")
  IN IF rawEmail = "" THEN Reject("Email must be a non-empty string")
     ELSE IF Len(addr) > MaxEmailLength
          THEN Reject("Email exceeds maximum length of 320 characters")
     ELSE IF atCount # 1
          THEN Reject(IF atCount = 0 THEN "Missing @ symbol"
                                     ELSE "Multiple @ symbols found")
     ELSE IF ~validateLocalPart(parts[1], o.allowQuotedLocal).valid
          THEN validateLocalPart(parts[1], o.allowQuotedLocal)
     ELSE IF ~validateDomainPart(parts[2]).valid
          THEN validateDomainPart(parts[2])
     ELSE IF /\ o.allowInternational
             /\ toASCII(parts[2]) # parts[2]
             /\ ~validateDomainPart(toASCII(parts[2])).valid
          THEN Reject("Invalid internationalized domain: "
                        \o validateDomainPart(toASCII(parts[2])).reason)
     ELSE IF ~performAdvancedValidation(addr, parts[1], parts[2],
                                        o.strictMode).valid
          THEN performAdvancedValidation(addr, parts[1], parts[2], o.strictMode)
     ELSE [valid |-> TRUE, reason |-> "Email passes RFC 5321/5322 validation"]

NoParse == [original |-> "", localPart |-> "", domain |-> ""]

\* parseEmail: null (NoParse) when validateRFC rejects; splits the untrimmed
\* input and lowercases the domain
parseEmail(addr, o) ==
  IF ~validateRFC(addr, o).valid THEN NoParse
  ELSE [original |-> addr,
        localPart |-> Split(addr, "@")[1],
        domain |-> ToLower(Split(addr, "@")[2])]

(***************************************************************************)
(* DisposableDetector                                                      *)
(***************************************************************************)
\* knownDisposableDomains, the built-in list the detector starts from
knownDisposableDomains ==
  {"10minutemail.com", "10minutemail.net", "20minutemail.com", "anonbox.net",
   "anonymbox.com", "burnermail.io", "clickamail.com", "deadaddress.com",
   "discard.email", "dropmail.me", "emailfake.com", "emailondeck.com",
   "emailsensei.com", "getairmail.com", "grr.la", "guerrillamail.com",
   "guerrillamail.net", "incognitomail.org", "inboxkitten.com", "jetable.org",
   "luxusmail.org", "mailcatch.com", "maildrop.cc", "mailexpire.com",
   "mailforspam.com", "mailinator.com", "mailnesia.com", "mintemail.com",
   "mohmal.com", "mytrashmail.com", "sharklasers.com", "spam.la", "spam4.me",
   "spamex.com", "spamfree24.org", "spamgourmet.com", "spamhole.com",
   "spamstack.net", "temp-mail.org", "tempail.com", "tempemail.com",
   "tempemail.net", "tempemails.net", "tempinbox.com", "tempmail.it",
   "tempmail.org", "tempsky.com", "throwam.com", "throwaway.email",
   "trashmail.com", "wegwerfemail.de", "yopmail.com", "yopmail.fr",
   "yopmail.net"}

\* disposablePatterns: the patterns that are plain substrings ...
disposableSubstrings ==
  {"throwaway", "disposable", "mailinator", "getairmail", "sharklasers",
   "grr.la", "yopmail", "maildrop", "tempail", "10minutemail", "dispostable",
   "spamgourmet", "mailnesia", "emailondeck", "tempinbox", "incognitomail",
   "anonymbox", "deadaddress", "mytrashmail", "no-spam", "spam4", "tempemail",
   "tempmail", "mailcatch", "mailexpire", "emailsensei", "spamex", "dropmail",
   "jetable", "wegwerfemail", "weg-werf-email", "email60", "mailforspam",
   "emailmiser", "anonbox", "spamhole", "spamstack", "spam.la", "mintemail",
   "throwam", "tempsky", "discard.email", "burnermail", "inboxkitten",
   "mohmal", "temp-mail", "20minutemail", "luxusmail", "spamfree24",
   "emailfake", "mailtemporary", "instantemail", "tempemails"}

\* ... and the patterns of the shape a.*b
disposableWildcards ==
  {<<"temp", "mail">>, <<"guerrilla", "mail">>, <<"fake", "mail">>,
   <<"spam", "mail">>, <<"trash", "mail">>}

matchesDisposablePattern(d) ==
  \/ \E p \in disposableSubstrings : Includes(d, p)
  \/ \E w \in disposableWildcards : MatchesInOrder(d, w[1], w[2])
  \/ \E i \in 1..(Len(d) - 1) :                             \* /10.*min.*mail/
       SubSeq(d, i, i + 1) = "10"
         /\ MatchesInOrder(SubSeq(d, i + 2, Len(d)), "min", "mail")

\* /\d+word/ : a digit immediately before word
DigitBefore(d, word) ==
  \E i \in 2..(Len(d) - Len(word) + 1) :
    Includes(Digits, CharAt(d, i - 1)) /\ SubSeq(d, i, i + Len(word) - 1) = word

suspiciousSubstrings ==
  {"instant", "quick", "fast", "throw", "drop", "trash", "delete", "destroy",
   "burn", "expire", "vanish", "test", "demo", "sample", "fake", "dummy",
   "mock", "anon", "private", "secret", "hidden", "incognito", "nospam",
   "antispam", "spamfree", "noads", "mailbox", "inbox", "email", "mail"}

DigitCount(d) == Cardinality({i \in 1..Len(d) : Includes(Digits, CharAt(d, i))})

checkAdvancedHeuristics(d) ==
  LET matches ==
        Cardinality({p \in suspiciousSubstrings : Includes(d, p)})
        + Cardinality({w \in {"min", "hour", "sec"} : DigitBefore(d, w)})
  IN \/ matches >= 2
     \/ Len(d) <= 8 /\ Includes(d, "mail")
     \/ CountChar(d, "-") > 2
     \/ DigitCount(d) > 3 /\ Includes(d, "mail")

suspiciousTlds == {".tk", ".ml", ".ga", ".cf"}

\* isDisposable(domain) computed against the set of blocklisted domains;
\* the detector's result cache is keyed by the domain and stores this value
isDisposable(domain, disposableDomains) ==
  LET d == Trim(ToLower(domain))
      parts == Split(d, ".")
  IN \/ d \in disposableDomains
     \/ matchesDisposablePattern(d)
     \/ /\ Len(parts) > 2
        /\ (parts[Len(parts) - 1] \o "." \o parts[Len(parts)])
             \in disposableDomains
     \/ \E tld \in suspiciousTlds : EndsWith(d, tld)
     \/ 10 * DigitCount(d) > 3 * Len(d) /\ Includes(d, "mail")
     \/ checkAdvancedHeuristics(d)

\* isDisposable as a caller reaches it: the verdict kept under
\* disposable_<domain> when the module's cache has one, else the verdict
\* computed from the list, which is then kept; no option is consulted
CachedIsDisposable(space, domain, disposableDomains) ==
  LET d == Trim(ToLower(domain))
      verdict == IF d \in DOMAIN space THEN space[d]
                 ELSE isDisposable(d, disposableDomains)
  IN [verdict |-> verdict, space |-> (d :> verdict) @@ space]

consumerProviders ==
  {"gmail.com", "yahoo.com", "hotmail.com", "outlook.com", "aol.com",
   "icloud.com", "me.com", "mac.com", "live.com", "msn.com", "ymail.com",
   "rocketmail.com", "protonmail.com", "tutanota.com", "mail.com", "zoho.com",
   "fastmail.com"}

isBusinessEmail(domain, disposableDomains) ==
  LET d == Trim(ToLower(domain)) IN
    /\ d \notin consumerProviders
    /\ ~isDisposable(d, disposableDomains)
    /\ \/ \E w \in {"corp", "company", "inc", "ltd", "llc"} : Includes(d, w)
       \/ \E e \in {"org", "edu", "gov"} : EndsWith(d, e)

(***************************************************************************)
(* TypoCorrector.domainCorrections, restricted to the entries for the      *)
(* domains the model validates ("" stands for a missing key)               *)
(***************************************************************************)
domainCorrections(domain) ==
  CASE domain \in {"gmail.con", "gmail.co", "gmai.com", "gmial.com", "gmal.com",
                   "gmeil.com", "gnail.com", "gimail.com", "gamil.com",
                   "gmaill.com", "gmail.comm", "gmail.ccom", "gmail.om",
                   "gmail.cm", "gmailo.com", "gmail.c"} -> "gmail.com"
    [] domain \in {"yahoo.con", "yahoo.co", "yhoo.com", "yaho.com", "yahoo.om",
                   "yahoo.cm", "yahooo.com", "yahoo.comm", "yahho.com",
                   "yaoho.com", "yahoo.c"} -> "yahoo.com"
    [] domain \in {"hotmail.con", "hotmail.co", "hotnail.com", "hotmial.com",
                   "hotmal.com", "hotmeil.com", "hotmail.om", "hotmail.cm",
                   "hotmail.comm", "hotmaill.com", "hotmial.co"} -> "hotmail.com"
    [] domain \in {"outlook.con", "outlook.co", "outlok.com", "outloo.com",
                   "outlook.om", "outlook.cm", "outlook.comm", "outlookk.com",
                   "outllook.com"} -> "outlook.com"
    [] domain \in {"icloud.con", "icloud.co", "iclod.com", "icoud.com",
                   "icloud.om", "icloud.cm"} -> "icloud.com"
    [] domain \in {"aol.con", "aol.co", "ao.com", "aoll.com"} -> "aol.com"
    [] domain \in {"protonmail.con", "protonmail.co", "protonmial.com",
                   "protonmal.com"} -> "protonmail.com"
    [] domain \in {"live.con", "live.co"} -> "live.com"
    [] domain \in {"msn.con", "msn.co"} -> "msn.com"
    [] domain \in {"mail.con", "mail.co"} -> "mail.com"
    [] domain \in {"ymail.con", "ymail.co"} -> "ymail.com"
    [] domain \in {".con", ".co", ".cmo", ".comm", ".om", ".cm", ".ccom"}
         -> ".com"
    [] OTHER -> ""

(***************************************************************************)
(* The addresses validated in the model, and their parts                   *)
(***************************************************************************)
Emails ==
  {"john.doe@gmail.com", "john+news@gmail.com", "user@gmai.com",
   "user@10minutemail.com", "info@example.com", "sales@acme-corp.io",
   "invalid-email", "user@münchen.de", "user@example.cöm"}

\* the local parts and (lowercased) domains parseEmail can produce from them
LocalParts == {Split(e, "@")[1] : e \in {x \in Emails : CountChar(x, "@") = 1}}
DomainParts ==
  {ToLower(Split(e, "@")[2]) : e \in {x \in Emails : CountChar(x, "@") = 1}}

(***************************************************************************)
(* EmailValidator: options and pure helpers                                *)
(***************************************************************************)
\* the options a caller may pass to the constructor
UserOptions ==
  [checkSyntax : BOOLEAN, checkDomain : BOOLEAN, checkMX : BOOLEAN,
   checkSMTP : BOOLEAN, checkDisposable : BOOLEAN, checkTypos : BOOLEAN,
   strictMode : BOOLEAN, enableAdvancedHeuristics : BOOLEAN]

\* the constructor: defaults, then the strict-mode overrides.  impl = 2 is
\* the second definition of the class, which has no strict-mode overrides
EmailValidatorOptions(u, which) ==
  LET strict == which = 1 /\ u.strictMode IN
    [checkSyntax |-> u.checkSyntax,
     checkDomain |-> u.checkDomain,
     checkMX |-> u.checkMX,
     checkSMTP |-> u.checkSMTP,
     checkDisposable |-> u.checkDisposable,
     checkTypos |-> u.checkTypos,
     strictMode |-> u.strictMode,
     allowInternational |-> TRUE,
     allowQuotedLocal |-> ~strict,
     enableAdvancedHeuristics |-> u.enableAdvancedHeuristics \/ strict,
     enableRoleBasedDetection |-> TRUE,
     enableCache |-> TRUE,
     strictScoring |-> strict]

roleBasedNames ==
  {"abuse", "admin", "administrator", "billing", "compliance", "contact",
   "info", "inquiry", "it", "help", "hostmaster", "list", "marketing", "news",
   "noreply", "no-reply", "null", "operations", "postmaster", "privacy",
   "registrar", "root", "sales", "security", "support", "sysadmin", "tech",
   "test", "testing", "trouble", "undisclosed", "unsubscribe", "usenet",
   "uucp", "webmaster", "www"}

\* roleBasedPatterns are /^name@/i and are tested against the local part
isRoleBased(localPart, o) ==
  /\ o.enableRoleBasedDetection
  /\ \E n \in roleBasedNames : StartsWith(ToLower(localPart), n \o "@")

freeProviders ==
  {"gmail.com", "googlemail.com", "yahoo.com", "yahoo.co.uk", "yahoo.in",
   "hotmail.com", "outlook.com", "live.com", "msn.com", "icloud.com", "me.com",
   "mac.com", "aol.com", "protonmail.com", "tutanota.com", "zoho.com",
   "yandex.com", "mail.com", "gmx.com", "gmx.net", "fastmail.com",
   "hushmail.com", "lycos.com", "inbox.com", "mail.ru", "rambler.ru", "qq.com",
   "163.com", "126.com", "sina.com", "sohu.com", "tom.com", "yeah.net",
   "foxmail.com", "vip.163.com", "vip.126.com", "vip.sina.com", "vip.qq.com",
   "vip.sohu.com", "vip.tom.com", "vip.yeah.net", "vip.foxmail.com",
   "vip.mail.ru", "vip.rambler.ru"}

isFreeProvider(domain) == ToLower(domain) \in freeProviders

trustedDomains ==
  {"gmail.com", "outlook.com", "yahoo.com", "hotmail.com", "icloud.com",
   "aol.com", "protonmail.com"}

Clamp100(n) == IF n < 0 THEN 0 ELSE IF n > 100 THEN 100 ELSE n

calculateDomainReputation(domain, health) ==
  Clamp100(50
    + (IF ToLower(domain) \in trustedDomains THEN 40 ELSE 0)
    + (IF \/ Includes(domain, "corp")
          \/ Includes(domain, "company")
          \/ (~Includes(domain, ".com") /\ ~Includes(domain, ".net"))
       THEN 20 ELSE 0)
    + (IF health.spf THEN 5 ELSE 0)
    + (IF health.dmarc THEN 10 ELSE 0)
    + (IF health.dkim THEN 5 ELSE 0)
    - (IF \E tld \in suspiciousTlds : EndsWith(domain, tld) THEN 30 ELSE 0))

knownBadDomains ==
  {"tempmail.com", "10minutemail.com", "guerrillamail.com", "mailinator.com",
   "spam.com", "example.com"}

checkDomainBlacklists(domain) == ToLower(domain) \in knownBadDomains

\* checkDomainHealth given the outcome of the two TXT lookups (a failed
\* lookup leaves the flag false); DKIM is never probed
checkDomainHealth(domain, spf, dmarc) ==
  LET h == [spf |-> spf, dkim |-> FALSE, dmarc |-> dmarc] IN
    [spf |-> spf, dkim |-> FALSE, dmarc |-> dmarc,
     blacklisted |-> checkDomainBlacklists(domain),
     reputation |-> calculateDomainReputation(domain, h)]

\* checkDomainHealth tabulated over the domains of the model
domainHealthOf ==
  [d \in DomainParts |->
     [spf \in BOOLEAN |-> [dmarc \in BOOLEAN |-> checkDomainHealth(d, spf, dmarc)]]]

goodProviders == {"google.com", "outlook.com", "microsoft.com", "amazon.com"}

calculateMXScore(mxRecords) ==
  LET score == 70
        + (IF Len(mxRecords) > 1 THEN 10 ELSE 0)
        + (IF Len(mxRecords) > 2 THEN 5 ELSE 0)
        + (IF \E i \in 1..Len(mxRecords) : \E g \in goodProviders :
                Includes(mxRecords[i].exchange, g)
           THEN 15 ELSE 0)
  IN IF score > 100 THEN 100 ELSE score

RECURSIVE SortByPriority(_)
\* Array.prototype.sort((a, b) => a.priority - b.priority), stable
SortByPriority(recs) ==
  IF Len(recs) <= 1 THEN recs
  ELSE LET m == CHOOSE i \in 1..Len(recs) :
                  /\ \A j \in 1..Len(recs) : recs[i].priority <= recs[j].priority
                  /\ \A j \in 1..(i - 1) : recs[j].priority > recs[i].priority
       IN <<recs[m]>>
            \o SortByPriority(SubSeq(recs, 1, m - 1) \o SubSeq(recs, m + 1, Len(recs)))

\* checkMXRecords given the resolver's answers: mx is the answer of
\* resolveMx (ok = FALSE when it rejects, else the records) and aOk says
\* whether resolve4 succeeds
checkMXRecords(mx, aOk) ==
  IF ~mx.ok
  THEN [found |-> FALSE, records |-> <<>>, deliverabilityScore |-> 0]
  ELSE IF Len(mx.records) > 0
       THEN [found |-> TRUE, records |-> SortByPriority(mx.records),
             deliverabilityScore |-> calculateMXScore(SortByPriority(mx.records))]
  ELSE IF aOk
       THEN [found |-> TRUE, records |-> <<>>, deliverabilityScore |-> 60]
  ELSE [found |-> FALSE, records |-> <<>>, deliverabilityScore |-> 0]

(***************************************************************************)
(* The result record and the scorers                                       *)
(***************************************************************************)
InitialResult(addr) ==
  [input |-> addr,
   syntax_valid |-> FALSE,
   domain_valid |-> FALSE,
   mx_found |-> FALSE,
   smtp_deliverable |-> "null",
   disposable |-> FALSE,
   typo_detected |-> FALSE,
   suggestion |-> "",
   score |-> 0,
   status |-> "invalid",
   reason |-> "",
   factors |-> [format |-> FALSE, domain |-> FALSE, mx |-> FALSE,
                smtp |-> "false", reputation |-> 0, deliverability |-> 0],
   domainHealth |-> [spf |-> FALSE, dkim |-> FALSE, dmarc |-> FALSE,
                     blacklisted |-> FALSE, reputation |-> 0],
   is_role_based |-> FALSE,
   is_catch_all |-> FALSE,
   has_plus_alias |-> FALSE,
   is_international |-> FALSE,
   checks_performed |-> <<>>,
   is_free_provider |-> FALSE,
   is_business_email |-> FALSE,
   smtp_server_response |-> "",
   smtp_server_banner |-> "",
   tls_supported |-> FALSE,
   advanced_heuristics_score |-> 0]

\* Math.round(n / d) for d > 0: the nearest integer, halves rounded up
RoundDiv(n, d) == (2 * n + d) \div (2 * d)

\* calculateScore of the first definition; the sum is kept in fifths so that
\* the reputation term (reputation - 50) / 5 stays an integer until rounding
calculateScore(r, o) ==
  LET strict == o.strictScoring
      points ==
          (IF r.syntax_valid THEN 25 ELSE 0)
        + (IF r.domain_valid THEN 20 ELSE 0)
        + (IF r.mx_found THEN 25 ELSE 0)
        + (IF r.smtp_deliverable = "true" THEN 20
           ELSE IF r.smtp_deliverable = "null" THEN 5 ELSE 0)
        + (IF r.domainHealth.spf THEN 5 ELSE 0)
        + (IF r.domainHealth.dmarc THEN 7 ELSE 0)
        + (IF r.domainHealth.dkim THEN 3 ELSE 0)
        + (IF r.advanced_heuristics_score > 70 THEN 10
           ELSE IF r.advanced_heuristics_score > 50 THEN 5 ELSE 0)
        - (IF r.disposable THEN (IF strict THEN 50 ELSE 40) ELSE 0)
        - (IF r.domainHealth.blacklisted THEN (IF strict THEN 60 ELSE 50) ELSE 0)
        - (IF r.is_role_based THEN (IF strict THEN 25 ELSE 15) ELSE 0)
        - (IF r.is_free_provider THEN (IF strict THEN 10 ELSE 5) ELSE 0)
        - (IF r.typo_detected /\ r.suggestion # "" /\ r.suggestion # r.input
           THEN (IF strict THEN 25 ELSE 15) ELSE 0)
        + (IF r.tls_supported THEN 5 ELSE 0)
        + (IF r.is_business_email THEN 10 ELSE 0)
  IN Clamp100(RoundDiv(5 * points + (r.domainHealth.reputation - 50), 5))

\* calculateScore of the second definition
calculateScoreV2(r) ==
  LET points ==
          (IF r.syntax_valid THEN 20 ELSE 0)
        + (IF r.domain_valid THEN 20 ELSE 0)
        + (IF r.mx_found THEN 25 ELSE 0)
        + (IF r.smtp_deliverable = "true" THEN 15
           ELSE IF r.smtp_deliverable = "null" THEN 7 ELSE 0)
        + (IF r.domainHealth.spf THEN 3 ELSE 0)
        + (IF r.domainHealth.dmarc THEN 4 ELSE 0)
        + (IF r.domainHealth.dkim THEN 3 ELSE 0)
        - (IF r.disposable THEN 30 ELSE 0)
        - (IF r.domainHealth.blacklisted THEN 40 ELSE 0)
        - (IF r.typo_detected /\ r.suggestion # "" /\ r.suggestion # r.input
           THEN 10 ELSE 0)
  IN Clamp100(RoundDiv(5 * points + (r.domainHealth.reputation - 50), 5))

\* the local-part analysis of calculateReputationScore
localPartReputation(l) ==
  50
    - (IF Includes(l, "noreply") \/ Includes(l, "no-reply") THEN 20 ELSE 0)
    - (IF Includes(l, "test") \/ Includes(l, "demo") THEN 15 ELSE 0)
    - (IF HasDigitRun(l, 5) THEN 10 ELSE 0)
    - (IF Len(l) < 3 THEN 10 ELSE 0)
    - (IF Len(l) > 20 THEN 5 ELSE 0)

\* ... tabulated over the local parts of the model
localPartReputationOf == [l \in LocalParts |-> localPartReputation(l)]

calculateReputationScore(parsedEmail, r) ==
  Clamp100(RoundDiv(2 * localPartReputationOf[parsedEmail.localPart]
                      + (r.domainHealth.reputation - 50), 2))

heuristicSuspiciousTlds ==
  {"tk", "ml", "ga", "cf", "gq", "top", "click", "download"}

commonWords ==
  {"admin", "user", "contact", "info", "support", "sales", "marketing"}

\* the local-part, domain and TLD analysis of calculateAdvancedHeuristics
\* (the penalties that depend on the strings only)
shapePenalty(localPart, domain) ==
  LET parts == Split(domain, ".")
      lc == LowerAlpha \o UpperAlpha
      special == {i \in 1..Len(localPart) :
                    ~Includes(lc \o Digits \o "._+-", CharAt(localPart, i))}
  IN  (IF Len(localPart) < 3 THEN 15 ELSE 0)
    + (IF Len(localPart) > 30 THEN 10 ELSE 0)
    + (IF Len(localPart) > 0 /\ AllIn(localPart, Digits) THEN 25 ELSE 0)
    + (IF \E k \in 1..2 : Len(localPart) > k
              /\ AllIn(SubSeq(localPart, k + 1, Len(localPart)), Digits)
       THEN 15 ELSE 0)
    + (IF \E k \in 1..2 : Len(localPart) >= k + 4
              /\ AllIn(SubSeq(localPart, 1, k), lc)
              /\ AllIn(SubSeq(localPart, k + 1, Len(localPart)), Digits)
       THEN 20 ELSE 0)
    + (IF Len(domain) < 4 THEN 20 ELSE 0)
    + (IF Len(domain) > 30 THEN 5 ELSE 0)
    + (IF HasDigitRun(domain, 3) THEN 15 ELSE 0)
    + (IF \E i \in 1..Len(domain) : \E j \in (i + 3)..Len(domain) :
              /\ CharAt(domain, i) = "-" /\ CharAt(domain, j) = "-"
              /\ AllIn(SubSeq(domain, i + 1, j - 1), LowerAlpha)
       THEN 10 ELSE 0)
    + (IF parts[Len(parts)] \in heuristicSuspiciousTlds THEN 30 ELSE 0)
    + (IF Len(parts) > 4 THEN 10 ELSE 0)
    + (IF \E i \in 1..Len(parts) : Len(parts[i]) < 2 THEN 15 ELSE 0)
    + (IF Cardinality(special) > 2 THEN 20 ELSE 0)
    + (IF \E i \in 1..(Len(localPart) - 2) :
              CharAt(localPart, i) = CharAt(localPart, i + 1)
                /\ CharAt(localPart, i) = CharAt(localPart, i + 2)
       THEN 15 ELSE 0)
    + (IF HasDigitRun(localPart, 6) THEN 20 ELSE 0)
    + (IF ToLower(localPart) \in commonWords THEN 10 ELSE 0)

\* ... tabulated over the parts of the model
shapePenaltyOf ==
  [l \in LocalParts |-> [d \in DomainParts |-> shapePenalty(l, d)]]

calculateAdvancedHeuristics(localPart, domain, r) ==
  Clamp100(50
    - shapePenaltyOf[localPart][domain]
    - (IF r.disposable THEN 40 ELSE 0)
    - (IF r.is_role_based THEN 15 ELSE 0)
    - (IF r.typo_detected THEN 25 ELSE 0)
    - (IF r.domainHealth.blacklisted THEN 50 ELSE 0)
    + (IF r.domainHealth.spf THEN 10 ELSE 0)
    + (IF r.domainHealth.dmarc THEN 15 ELSE 0)
    + (IF r.tls_supported THEN 10 ELSE 0))

\* a verdict chain that accepts from the risky threshold on
ValidThresholdLax(o) == IF o.strictScoring THEN 70 ELSE 65

ValidThreshold(o) == IF o.strictScoring THEN 90 ELSE 85
RiskyThreshold(o) == IF o.strictScoring THEN 70 ELSE 65

\* a status chain without its first row (disposable -> risky)
determineStatusSkipDisposable(r, o) ==
  IF r.domainHealth.blacklisted
  THEN [status |-> "invalid", reason |-> "Domain is blacklisted"]
  ELSE IF ~r.syntax_valid \/ ~r.domain_valid
  THEN [status |-> "invalid", reason |-> "Invalid email format or domain"]
  ELSE IF ~r.mx_found
  THEN [status |-> "invalid",
        reason |-> "Domain cannot receive emails (no MX records)"]
  ELSE IF r.score >= (IF o.strictScoring THEN 90 ELSE 85)
  THEN [status |-> "valid",
        reason |-> "Email appears to be valid and deliverable"]
  ELSE IF r.score >= (IF o.strictScoring THEN 70 ELSE 65)
  THEN [status |-> "risky",
        reason |-> "Email may be risky - proceed with caution"]
  ELSE [status |-> "invalid",
        reason |-> "Email is likely invalid or undeliverable"]

\* the status chain at the end of validate (first definition)
determineStatus(r, o) ==
  IF r.disposable
  THEN [status |-> "risky", reason |-> "Disposable email address detected"]
  ELSE IF r.domainHealth.blacklisted
  THEN [status |-> "invalid", reason |-> "Domain is blacklisted"]
  ELSE IF ~r.syntax_valid \/ ~r.domain_valid
  THEN [status |-> "invalid", reason |-> "Invalid email format or domain"]
  ELSE IF ~r.mx_found
  THEN [status |-> "invalid",
        reason |-> "Domain cannot receive emails (no MX records)"]
  ELSE IF r.score >= ValidThreshold(o)
  THEN [status |-> "valid",
        reason |-> "Email appears to be valid and deliverable"]
  ELSE IF r.score >= RiskyThreshold(o)
  THEN [status |-> "risky",
        reason |-> "Email may be risky - proceed with caution"]
  ELSE [status |-> "invalid",
        reason |-> "Email is likely invalid or undeliverable"]

ValidThresholdV2 == 75
RiskyThresholdV2 == 50

\* the status chain of the second definition
determineStatusV2(r) ==
  IF r.disposable
  THEN [status |-> "risky", reason |-> "Disposable email address detected"]
  ELSE IF r.domainHealth.blacklisted
  THEN [status |-> "invalid", reason |-> "Domain is blacklisted"]
  ELSE IF ~r.syntax_valid \/ ~r.domain_valid
  THEN [status |-> "invalid", reason |-> "Invalid email format or domain"]
  ELSE IF ~r.mx_found
  THEN [status |-> "invalid",
        reason |-> "Domain cannot receive emails (no MX records)"]
  ELSE IF r.score >= ValidThresholdV2
  THEN [status |-> "valid",
        reason |-> "Email appears to be valid and deliverable"]
  ELSE IF r.score >= RiskyThresholdV2
  THEN [status |-> "risky",
        reason |-> "Email may be risky - proceed with caution"]
  ELSE [status |-> "invalid",
        reason |-> "Email is likely invalid or undeliverable"]

(***************************************************************************)
(* testSMTPDeliverability: the SMTP dialogue as event handlers over the    *)
(* closure state of the promise (step, serverBanner, ...).  outcome is <<>> *)
(* until the promise is resolved, then <<value>>.                          *)
(***************************************************************************)
smtpFromDomain == "validator.example.com"

\* replies a mail server may send in one data event
SmtpReplies ==
  {"220 mx ESMTP ready", "220 mx ESMTP STARTTLS", "250 OK",
   "550 No such user", "451 Try again later"}

\* bound: the number of data events a server sends in one dialogue
MaxDialogueEvents == 6

Outcome(ps, deliverable, reason) ==
  [deliverable |-> deliverable, reason |-> reason,
   serverBanner |-> ps.serverBanner, serverResponse |-> ps.serverResponse,
   tlsSupported |-> ps.tlsSupported, isCatchAll |-> ps.isCatchAll]

\* a result object without the telemetry fields (they read as undefined)
BareOutcome(deliverable, reason) ==
  [deliverable |-> deliverable, reason |-> reason,
   serverBanner |-> "", serverResponse |-> "",
   tlsSupported |-> FALSE, isCatchAll |-> FALSE]

\* state when the promise executor has run: socket connecting, timer armed
ProbeOpen(rcpt, domain) ==
  [email |-> rcpt, domain |-> domain, step |-> 0,
   serverBanner |-> "", serverResponse |-> "",
   tlsSupported |-> FALSE, isCatchAll |-> FALSE,
   socket |-> "open", timer |-> "armed",
   written |-> <<>>, outcome |-> <<>>, events |-> 0]

ProbeIdle ==
  [email |-> "", domain |-> "", step |-> 0,
   serverBanner |-> "", serverResponse |-> "",
   tlsSupported |-> FALSE, isCatchAll |-> FALSE,
   socket |-> "none", timer |-> "none",
   written |-> <<>>, outcome |-> <<>>, events |-> 0]

\* resolve(value): only the first call settles the promise
Resolve(ps, value) ==
  IF ps.outcome = <<>> THEN [ps EXCEPT !.outcome = <<value>>] ELSE ps

\* a settle sequence that forgets cleanup(): the socket stays as it is
FinishLeavesSocket(ps, value) ==
  Resolve([ps EXCEPT !.timer = "cleared"], value)

\* clearTimeout(timeout); cleanup(); resolve(value)
Finish(ps, value) ==
  Resolve([ps EXCEPT !.timer = "cleared", !.socket = "destroyed"], value)

\* socket.on("data")
OnData(ps, response) ==
  LET banner == ps.step = 0 /\ StartsWith(response, "220")
      p1 == IF banner
            THEN [ps EXCEPT !.serverBanner = response,
                            !.tlsSupported = Includes(ToLower(response), "tls")
                               \/ Includes(ToLower(response), "starttls"),
                            !.events = ps.events + 1]
            ELSE [ps EXCEPT !.events = ps.events + 1]
  IN IF p1.step = 0 /\ StartsWith(response, "220")
     THEN [p1 EXCEPT !.written = Append(@, "HELO " \o smtpFromDomain),
                     !.step = 1]
     ELSE IF p1.step = 1 /\ StartsWith(response, "250")
     THEN [p1 EXCEPT !.written =
                        Append(@, "MAIL FROM:<test@" \o smtpFromDomain \o ">"),
                     !.step = 2]
     ELSE IF p1.step = 2 /\ StartsWith(response, "250")
     THEN [p1 EXCEPT !.written = Append(@, "RCPT TO:<" \o ps.email \o ">"),
                     !.step = 3]
     ELSE IF p1.step = 3
     THEN LET p3 == [p1 EXCEPT !.serverResponse = response] IN
          IF StartsWith(response, "250")
          THEN [p3 EXCEPT !.written =
                   Append(@, "RCPT TO:<nonexistent-now@" \o ps.domain \o ">"),
                          !.step = 4]
          ELSE IF StartsWith(response, "550")
          THEN Finish(p3, Outcome(p3, "false",
                                  "Email address rejected by server"))
          ELSE Finish(p3, Outcome(p3, "null",
                                  "Uncertain - server response: " \o response))
     ELSE IF p1.step = 4
     THEN LET p4 == [p1 EXCEPT !.isCatchAll =
                                  (@ \/ StartsWith(response, "250"))] IN
          Finish(p4, Outcome(p4, "true", "SMTP server accepts email"))
     ELSE p1

\* a timer callback that reports the timeout but forgets cleanup()
OnTimeoutNoCleanup(ps) ==
  Resolve([ps EXCEPT !.timer = "fired"],
          Outcome(ps, "false", "SMTP connection timeout"))

\* the setTimeout callback: cleanup(); resolve(...)
OnTimeout(ps) ==
  Resolve([ps EXCEPT !.timer = "fired", !.socket = "destroyed"],
          Outcome(ps, "false", "SMTP connection timeout"))

\* socket.on("error")
OnError(ps) ==
  Finish(ps, Outcome(ps, "false", "SMTP connection error: ECONNRESET"))

\* the events that can reach the handlers in state ps
DataEnabled(ps) ==
  ps.socket = "open" /\ ps.events < MaxDialogueEvents
\* a dialogue whose timer is never started
TimeoutNeverSet(ps) == FALSE

TimeoutEnabled(ps) == ps.timer = "armed"
ErrorEnabled(ps) == ps.socket \in {"open", "ended"}

ProbeSuccessors(ps) ==
  {OnData(ps, r) : r \in {x \in SmtpReplies : DataEnabled(ps)}}
    \cup {OnTimeout(q) : q \in {x \in {ps} : TimeoutEnabled(ps)}}
    \cup {OnError(q) : q \in {x \in {ps} : ErrorEnabled(ps)}}
    \cup {[q EXCEPT !.socket = "ended"] : q \in {x \in {ps} : ps.socket = "open"}}

RECURSIVE ProbeReach(_, _)
\* closure states reachable from the states in S within n events
ProbeReach(S, n) ==
  IF n = 0 THEN S
  ELSE ProbeReach(S \cup UNION {ProbeSuccessors(ps) : ps \in S}, n - 1)

\* every value the promise of one dialogue can resolve to; it does not
\* depend on the address probed, since Outcome reads neither email nor domain
DialogueOutcomes ==
  {ps.outcome[1] :
     ps \in {q \in ProbeReach({ProbeOpen("", "")}, MaxDialogueEvents + 2) :
               q.outcome # <<>>}}

\* testSMTPDeliverability: the second resolveMx, then the dialogue
testSMTPOutcomes(mx) ==
  IF ~mx.ok THEN {BareOutcome("false", "SMTP test failed: queryMx ESERVFAIL")}
  ELSE IF Len(mx.records) = 0
  THEN {BareOutcome("false", "No MX records found")}
  ELSE DialogueOutcomes

(***************************************************************************)
(* State                                                                   *)
(***************************************************************************)
VARIABLES
  impl,         \* which definition of EmailValidator is loaded (1 or 2)
  options,      \* this.options of the validator
  email,        \* the argument of validate
  pc,           \* the stage validate is about to run, or "returned"
  parsed,       \* the parsed components
  result,       \* the result record validate accumulates and returns
  proberCalls,  \* how often validate called testSMTPDeliverability
  probe,        \* closure state of a testSMTPDeliverability dialogue
  cache,        \* the module-level NodeCache of the validator, by keyspace
  previous,     \* what the previous validate of the same address returned
  bulk,         \* the locals of a BulkValidator.validateBatch call
  dns,          \* what the resolver answers to the lookup in progress
  detector      \* the DisposableDetector instances: their disposableDomains
                \* sets and how far each one's file load has come

vars ==
  <<impl, options, email, pc, parsed, result, proberCalls, probe, cache,
    previous, bulk, dns, detector>>

\* what resolveMx may answer
MxAnswers ==
  {[ok |-> FALSE, records |-> <<>>],
   [ok |-> TRUE, records |-> <<>>],
   [ok |-> TRUE, records |-> <<[priority |-> 10, exchange |-> "mx.mailhost.io"]>>],
   [ok |-> TRUE,
    records |-> <<[priority |-> 20, exchange |-> "alt1.aspmx.l.google.com"],
                  [priority |-> 10, exchange |-> "aspmx.l.google.com"]>>]}

Returned == pc = "returned"

\* recording a stage at the front of the list (unshift instead of push)
PushFront(r, check) == [r EXCEPT !.checks_performed = <<check>> \o @]

Push(r, check) == [r EXCEPT !.checks_performed = Append(@, check)]

(***************************************************************************)
(* EmailValidator.validate, one action per step of the pipeline            *)
(***************************************************************************)
\* a Step 1 that records the parser's verdict but does not return on reject
StepSyntaxContinues ==
  /\ pc = "syntax"
  /\ IF options.checkSyntax
     THEN LET syntaxResult == validateRFC(email, options) IN
            result' = [Push(result, "syntax") EXCEPT
                         !.syntax_valid = syntaxResult.valid,
                         !.factors.format = syntaxResult.valid,
                         !.reason = syntaxResult.reason]
     ELSE result' = result
  /\ pc' = "parse"
  /\ UNCHANGED <<impl, options, email, parsed, proberCalls, probe, cache,
                 previous, bulk, dns, detector>>

\* Step 1: syntax validation
StepSyntax ==
  /\ pc = "syntax"
  /\ IF options.checkSyntax
     THEN LET syntaxResult == validateRFC(email, options)
              r1 == [Push(result, "syntax") EXCEPT
                       !.syntax_valid = syntaxResult.valid,
                       !.factors.format = syntaxResult.valid]
          IN IF ~syntaxResult.valid
             THEN /\ result' = [r1 EXCEPT !.reason = syntaxResult.reason]
                  /\ pc' = "returned"
             ELSE /\ result' = r1
                  /\ pc' = "parse"
     ELSE /\ result' = result
          /\ pc' = "parse"
  /\ UNCHANGED <<impl, options, email, parsed, proberCalls, probe, cache,
                 previous, bulk, dns, detector>>

\* parseEmail and, in the first definition, the fields derived from the parts
StepParse ==
  /\ pc = "parse"
  /\ LET p == parseEmail(email, options) IN
       IF p = NoParse
       THEN /\ result' = [result EXCEPT
                            !.reason = "Failed to parse email components"]
            /\ pc' = "returned"
            /\ parsed' = parsed
            /\ cache' = cache
       ELSE /\ parsed' = p
            \* isBusinessEmail asks isDisposable unless the domain is a
            \* consumer provider
            /\ cache' =
                 IF impl = 1 /\ Trim(ToLower(p.domain)) \notin consumerProviders
                 THEN [cache EXCEPT !.disposable =
                         CachedIsDisposable(cache.disposable, p.domain,
                                            knownDisposableDomains).space]
                 ELSE cache
            /\ result' =
                 IF impl = 1
                 THEN [result EXCEPT
                         !.is_role_based = isRoleBased(p.localPart, options),
                         !.has_plus_alias = Includes(p.localPart, "+"),
                         !.is_international = isInternationalDomain(p.domain),
                         !.is_free_provider = isFreeProvider(p.domain),
                         !.is_business_email =
                            isBusinessEmail(p.domain, knownDisposableDomains)]
                 ELSE result
            /\ pc' = "typos"
  /\ UNCHANGED <<impl, options, email, proberCalls, probe, previous, bulk, dns,
                 detector>>

\* Step 2: typo detection against domainCorrections
StepTypos ==
  /\ pc = "typos"
  /\ IF options.checkTypos
     THEN LET parts == Split(email, "@")
              correction == domainCorrections(ToLower(parts[2]))
              r1 == Push(result, "typos")
          IN result' =
               IF parts[2] # "" /\ correction # ""
               THEN [r1 EXCEPT !.typo_detected = TRUE,
                               !.suggestion = parts[1] \o "@" \o correction]
               ELSE r1
     ELSE result' = result
  /\ pc' = "disposable"
  /\ UNCHANGED <<impl, options, email, parsed, proberCalls, probe, cache,
                 previous, bulk, dns, detector>>

\* Step 3: disposable detection
StepDisposable ==
  /\ pc = "disposable"
  /\ IF options.checkDisposable
     THEN LET lookup == CachedIsDisposable(cache.disposable, parsed.domain,
                                          knownDisposableDomains)
              d == lookup.verdict
              r1 == [Push(result, "disposable") EXCEPT !.disposable = d]
          IN /\ result' =
                  IF d THEN [r1 EXCEPT !.factors.reputation = -20] ELSE r1
             /\ cache' = [cache EXCEPT !.disposable = lookup.space]
     ELSE UNCHANGED <<result, cache>>
  /\ pc' = "domain"
  /\ UNCHANGED <<impl, options, email, parsed, proberCalls, probe, previous,
                 bulk, dns, detector>>

\* the caches with no entry: the validator's cache with its domain, mx and
\* health keys, the cache of disposableDetector.js (disposable) and the cache
\* of bulkValidator.js (bulk)
NoCache ==
  [domain |-> [d \in {} |-> 0], mx |-> [d \in {} |-> 0],
   health |-> [d \in {} |-> 0], disposable |-> [d \in {} |-> 0],
   bulk |-> [d \in {} |-> 0]]

\* this.options.enableCache && cache.has(cacheKey), within the TTL
Cached(o, space, key) == o.enableCache /\ key \in DOMAIN space

\* if (this.options.enableCache) cache.set(cacheKey, value)
CacheSet(o, space, key, value) ==
  IF o.enableCache THEN (key :> value) @@ space ELSE space

\* validateDomain: whether dns.lookup of the domain succeeds
validateDomain(resolves) ==
  IF resolves THEN [valid |-> TRUE, reason |-> "Domain resolves correctly"]
  ELSE [valid |-> FALSE, reason |-> "Domain does not resolve"]

\* Step 4: domain validation
StepDomain ==
  /\ pc = "domain"
  /\ IF options.checkDomain
     THEN \E resolves \in BOOLEAN :
            LET hit == Cached(options, cache.domain, parsed.domain)
                domainResult == IF hit THEN cache.domain[parsed.domain]
                                ELSE validateDomain(resolves)
                r1 == [Push(result, "domain") EXCEPT
                         !.domain_valid = domainResult.valid,
                         !.factors.domain = domainResult.valid]
            IN /\ cache' = IF ~hit /\ domainResult.valid
                           THEN [cache EXCEPT
                                   !.domain = CacheSet(options, @, parsed.domain,
                                                       domainResult)]
                           ELSE cache
               /\ IF ~domainResult.valid
                  THEN /\ result' = [r1 EXCEPT !.reason = domainResult.reason]
                       /\ pc' = "returned"
                  ELSE /\ result' = r1
                       /\ pc' = "mx"
     ELSE /\ result' = result
          /\ pc' = "mx"
          /\ cache' = cache
  /\ UNCHANGED <<impl, options, email, parsed, proberCalls, probe, previous,
                 bulk, dns, detector>>

\* Step 5: MX lookup
StepMX ==
  /\ pc = "mx"
  /\ IF options.checkMX
     THEN \E mx \in MxAnswers, aOk \in BOOLEAN :
            LET hit == Cached(options, cache.mx, parsed.domain)
                mxResult == IF hit THEN cache.mx[parsed.domain]
                            ELSE checkMXRecords(mx, aOk)
            IN /\ cache' = IF ~hit /\ mxResult.found
                           THEN [cache EXCEPT
                                   !.mx = CacheSet(options, @, parsed.domain,
                                                   mxResult)]
                           ELSE cache
               /\ result' = [Push(result, "mx") EXCEPT
                               !.mx_found = mxResult.found,
                               !.factors.mx = mxResult.found,
                               !.factors.deliverability =
                                  mxResult.deliverabilityScore]
     ELSE /\ result' = result
          /\ cache' = cache
  /\ pc' = "smtp"
  /\ UNCHANGED <<impl, options, email, parsed, proberCalls, probe, previous,
                 bulk, dns, detector>>

\* a Step 6 condition that forgets mx_found
ShouldProbeAlways(o, r) == o.checkSMTP

\* the condition of Step 6
ShouldProbe(o, r) == o.checkSMTP /\ r.mx_found

\* Step 6: the SMTP probe, run only when checkSMTP and mx_found.  The probe
\* is taken as one step here; SpecSMTP below runs it event by event.  Both
\* definitions of the class copy deliverable; only the first copies the rest
StepSMTP ==
  /\ pc = "smtp"
  /\ IF ShouldProbe(options, result)
     THEN /\ \E mx \in MxAnswers :
               \E smtpResult \in testSMTPOutcomes(mx) :
                 LET r1 == [Push(result, "smtp") EXCEPT
                              !.smtp_deliverable = smtpResult.deliverable,
                              !.factors.smtp = smtpResult.deliverable]
                 IN result' =
                      IF impl = 1
                      THEN [r1 EXCEPT
                              !.is_catch_all = smtpResult.isCatchAll,
                              !.smtp_server_response = smtpResult.serverResponse,
                              !.smtp_server_banner = smtpResult.serverBanner,
                              !.tls_supported = smtpResult.tlsSupported]
                      ELSE r1
          /\ proberCalls' = proberCalls + 1
     ELSE /\ result' = result
          /\ proberCalls' = proberCalls
  /\ pc' = "health"
  /\ UNCHANGED <<impl, options, email, parsed, probe, cache, previous, bulk,
                 dns, detector>>

\* Step 7: domain health
StepHealth ==
  /\ pc = "health"
  /\ \E spf \in BOOLEAN, dmarc \in BOOLEAN :
       LET hit == Cached(options, cache.health, parsed.domain)
           health == IF hit THEN cache.health[parsed.domain]
                     ELSE domainHealthOf[parsed.domain][spf][dmarc]
       IN /\ cache' = IF hit THEN cache
                      ELSE [cache EXCEPT
                              !.health = CacheSet(options, @, parsed.domain,
                                                  health)]
          /\ result' = [Push(result, "domain_health") EXCEPT
                          !.domainHealth = health]
  /\ pc' = "verdict"
  /\ UNCHANGED <<impl, options, email, parsed, proberCalls, probe, previous,
                 bulk, dns, detector>>

\* Steps 8 and 9: heuristics, score, reputation factor, status; return
StepVerdict ==
  /\ pc = "verdict"
  /\ LET r1 == IF impl = 1 /\ options.enableAdvancedHeuristics
               THEN [Push(result, "heuristics") EXCEPT
                       !.advanced_heuristics_score =
                          calculateAdvancedHeuristics(parsed.localPart,
                                                      parsed.domain, result)]
               ELSE result
         r2 == [r1 EXCEPT !.score = IF impl = 1 THEN calculateScore(r1, options)
                                    ELSE calculateScoreV2(r1)]
         r3 == [r2 EXCEPT !.factors.reputation =
                             calculateReputationScore(parsed, r2)]
         v == IF impl = 1 THEN determineStatus(r3, options)
              ELSE determineStatusV2(r3)
     IN result' = [r3 EXCEPT !.status = v.status, !.reason = v.reason]
  /\ pc' = "returned"
  /\ UNCHANGED <<impl, options, email, parsed, proberCalls, probe, cache,
                 previous, bulk, dns, detector>>

\* the catch block: an exception escapes a stage (the cached lookup of
\* validateDomain or checkMXRecords yields undefined when the entry expires
\* between cache.has and cache.get, and reading .valid / .found throws)
ValidateCatch ==
  /\ pc \in {"domain", "mx"}
  /\ IF pc = "domain" THEN options.checkDomain ELSE options.checkMX
  /\ result' = [Push(result, pc) EXCEPT
                  !.reason = "Validation failed due to technical error"]
  /\ pc' = "returned"
  /\ UNCHANGED <<impl, options, email, parsed, proberCalls, probe, cache,
                 previous, bulk, dns, detector>>

\* no earlier validation of the address
NoResult == <<>>

\* no lookup is in progress
NoAnswer == <<>>

\* no detector is observed on its own
NoDetector == <<>>

\* no validateBatch call is running
BulkIdle == [phase |-> "idle"]

ValidateInit(i) ==
  /\ impl = i
  /\ \E u \in UserOptions : options = EmailValidatorOptions(u, i)
  /\ email \in Emails
  /\ pc = "syntax"
  /\ parsed = NoParse
  /\ result = InitialResult(email)
  /\ proberCalls = 0
  /\ probe = ProbeIdle
  /\ cache = NoCache
  /\ previous = NoResult
  /\ bulk = BulkIdle
  /\ dns = NoAnswer
  /\ detector = NoDetector

Init == ValidateInit(1)

Next ==
  \/ StepSyntax
  \/ StepParse
  \/ StepTypos
  \/ StepDisposable
  \/ StepDomain
  \/ StepMX
  \/ StepSMTP
  \/ StepHealth
  \/ StepVerdict
  \/ ValidateCatch

Spec == Init /\ [][Next]_vars

\* the second definition of EmailValidator
InitV2 == ValidateInit(2)

SpecV2 == InitV2 /\ [][Next]_vars

(***************************************************************************)
(* testSMTPDeliverability, event by event: the second resolveMx, then the   *)
(* socket and timer callbacks in any order the runtime may deliver them     *)
(***************************************************************************)
\* the options of a validator constructed with { checkSMTP: true }
ProbingOptions ==
  EmailValidatorOptions(
    [checkSyntax |-> TRUE, checkDomain |-> TRUE, checkMX |-> TRUE,
     checkSMTP |-> TRUE, checkDisposable |-> TRUE, checkTypos |-> TRUE,
     strictMode |-> FALSE, enableAdvancedHeuristics |-> FALSE], 1)

InitSMTP ==
  /\ impl = 1
  /\ options = ProbingOptions
  /\ email \in {e \in Emails : validateRFC(e, ProbingOptions).valid}
  /\ pc = "resolveMx"
  /\ parsed = parseEmail(email, ProbingOptions)
  /\ result = InitialResult(email)
  /\ proberCalls = 1
  /\ probe = ProbeIdle
  /\ cache = NoCache
  /\ previous = NoResult
  /\ bulk = BulkIdle
  /\ dns = NoAnswer
  /\ detector = NoDetector

\* await dns.resolveMx: rejection and an empty answer settle the call at
\* once, otherwise the promise executor opens the socket and arms the timer
ProbeResolveMx ==
  /\ pc = "resolveMx"
  /\ \E mx \in MxAnswers :
       probe' = IF ~mx.ok
                THEN Resolve(ProbeIdle,
                             BareOutcome("false",
                                         "SMTP test failed: queryMx ESERVFAIL"))
                ELSE IF Len(mx.records) = 0
                THEN Resolve(ProbeIdle,
                             BareOutcome("false", "No MX records found"))
                ELSE ProbeOpen(email, parsed.domain)
  /\ pc' = "dialogue"
  /\ UNCHANGED <<impl, options, email, parsed, result, proberCalls, cache,
                 previous, bulk, dns, detector>>

\* a data event reaches socket.on("data")
ProbeData ==
  /\ pc = "dialogue"
  /\ DataEnabled(probe)
  /\ \E response \in SmtpReplies : probe' = OnData(probe, response)
  /\ UNCHANGED <<impl, options, email, pc, parsed, result, proberCalls, cache,
                 previous, bulk, dns, detector>>

\* the timer started by setTimeout fires
ProbeTimeout ==
  /\ pc = "dialogue"
  /\ TimeoutEnabled(probe)
  /\ probe' = OnTimeout(probe)
  /\ UNCHANGED <<impl, options, email, pc, parsed, result, proberCalls, cache,
                 previous, bulk, dns, detector>>

\* the socket emits "error"
ProbeError ==
  /\ pc = "dialogue"
  /\ ErrorEnabled(probe)
  /\ probe' = OnError(probe)
  /\ UNCHANGED <<impl, options, email, pc, parsed, result, proberCalls, cache,
                 previous, bulk, dns, detector>>

\* the server closes the connection; no handler is registered for it
ProbeServerEnd ==
  /\ pc = "dialogue"
  /\ probe.socket = "open"
  /\ probe' = [probe EXCEPT !.socket = "ended"]
  /\ UNCHANGED <<impl, options, email, pc, parsed, result, proberCalls, cache,
                 previous, bulk, dns, detector>>

NextSMTP ==
  \/ ProbeResolveMx
  \/ ProbeData
  \/ ProbeTimeout
  \/ ProbeError
  \/ ProbeServerEnd

SpecSMTP == InitSMTP /\ [][NextSMTP]_vars

\* the same dialogue with the timer's guarantee: a timeout that was set and
\* not cleared does run its callback once the delay has passed
SpecSMTPFair == SpecSMTP /\ WF_vars(ProbeTimeout)

(***************************************************************************)
(* Two validations of one address, back to back, by one validator: the     *)
(* second starts while every entry the first one cached is still live      *)
(***************************************************************************)
\* the options of new EmailValidator() and of new EmailValidator({
\* checkSMTP: false }): every flag tested with !== false defaults to true
CachingOptions ==
  {EmailValidatorOptions(
     [checkSyntax |-> TRUE, checkDomain |-> TRUE, checkMX |-> TRUE,
      checkSMTP |-> smtp, checkDisposable |-> TRUE, checkTypos |-> TRUE,
      strictMode |-> FALSE, enableAdvancedHeuristics |-> TRUE], 1) :
   smtp \in BOOLEAN}

InitCache ==
  /\ impl = 1
  /\ options \in CachingOptions
  /\ email \in {"john.doe@gmail.com", "info@example.com", "invalid-email"}
  /\ pc = "syntax"
  /\ parsed = NoParse
  /\ result = InitialResult(email)
  /\ proberCalls = 0
  /\ probe = ProbeIdle
  /\ cache = NoCache
  /\ previous = NoResult
  /\ bulk = BulkIdle
  /\ dns = NoAnswer
  /\ detector = NoDetector

\* the caller keeps what validate returned and calls validate(email) again
Revalidate ==
  /\ Returned
  /\ previous = NoResult
  /\ previous' = result
  /\ pc' = "syntax"
  /\ parsed' = NoParse
  /\ result' = InitialResult(email)
  /\ UNCHANGED <<impl, options, email, proberCalls, probe, cache, bulk, dns,
                 detector>>

NextCache ==
  \/ StepSyntax
  \/ StepParse
  \/ StepTypos
  \/ StepDisposable
  \/ StepDomain
  \/ StepMX
  \/ StepSMTP
  \/ StepHealth
  \/ StepVerdict
  \/ Revalidate

SpecCache == InitCache /\ [][NextCache]_vars

(***************************************************************************)
(* validate called twice on a validator constructed with enableCache:      *)
(* false, the module-level caches starting empty                           *)
(***************************************************************************)
InitNoCache ==
  /\ impl = 1
  /\ options \in {[o EXCEPT !.enableCache = FALSE] : o \in CachingOptions}
  /\ email \in {"john.doe@gmail.com", "info@example.com",
                "user@10minutemail.com", "invalid-email"}
  /\ pc = "syntax"
  /\ parsed = NoParse
  /\ result = InitialResult(email)
  /\ proberCalls = 0
  /\ probe = ProbeIdle
  /\ cache = NoCache
  /\ previous = NoResult
  /\ bulk = BulkIdle
  /\ dns = NoAnswer
  /\ detector = NoDetector

SpecNoCache == InitNoCache /\ [][NextCache]_vars

(***************************************************************************)
(* BulkValidator: constructor, validateBatch, processBatch,                *)
(* validateSingleEmail and generateSummary.  An element of the input array *)
(* is a string or some other value; text is what it prints as              *)
(***************************************************************************)
MaxInputs == 2
MaxBatchSize == 2

Str(t) == [isString |-> TRUE, truthy |-> t # "", text |-> t]

\* two spellings of one address, a string the parser rejects, the number 42
\* and null
BulkInputValues ==
  {Str("john.doe@gmail.com"), Str("John.Doe@Gmail.com"), Str("invalid-email"),
   [isString |-> FALSE, truthy |-> TRUE, text |-> "42"],
   [isString |-> FALSE, truthy |-> FALSE, text |-> "null"]}

\* parseInt(undefined): what an option left out becomes when the
\* environment variable behind it is not set either
NaN == 0 - 1

\* an option the caller did not pass
Unset == 0

\* the options object a caller passes to new BulkValidator(options)
BulkUserOptions ==
  [maxConcurrency : 1..MaxBatchSize,
   batchSize : {Unset} \cup 1..MaxBatchSize,
   progressCallback : BOOLEAN,
   enableCache : BOOLEAN,
   skipDuplicates : BOOLEAN,
   checkSMTP : {"unset", "true", "false"}]

\* the constructor of BulkValidator: this.options
BulkValidatorOptions(u, envBatchSize) ==
  [maxConcurrency |-> u.maxConcurrency,
   batchSize |-> IF u.batchSize # Unset THEN u.batchSize ELSE envBatchSize,
   progressCallback |-> u.progressCallback,
   enableCache |-> u.enableCache,
   skipDuplicates |-> u.skipDuplicates,
   checkSMTP |-> u.checkSMTP]

\* new EmailValidator(this.options): the bulk options are handed on as they
\* are, and the validator's constructor reads checkSMTP as
\* options.checkSMTP !== false
BulkEmailValidatorOptions(bo) ==
  EmailValidatorOptions(
    [checkSyntax |-> TRUE, checkDomain |-> TRUE, checkMX |-> TRUE,
     checkSMTP |-> bo.checkSMTP # "false", checkDisposable |-> TRUE,
     checkTypos |-> TRUE, strictMode |-> FALSE,
     enableAdvancedHeuristics |-> TRUE], 1)

\* JavaScript arithmetic and comparison with NaN
PlusJS(a, b) == IF a = NaN \/ b = NaN THEN NaN ELSE a + b
LessJS(a, b) == a # NaN /\ b # NaN /\ a < b

\* Array.prototype.slice(from, to): a NaN end counts as 0
Slice(s, from, to) ==
  LET last == IF to = NaN THEN 0 ELSE IF to > Len(s) THEN Len(s) ELSE to
  IN SubSeq(s, from + 1, last)

\* email.toLowerCase() of a string element
LowerCased(e) == Str(ToLower(e.text))

RECURSIVE UniqueSeq(_)
\* [...new Set(array)]: the first occurrence of each value, in order
UniqueSeq(s) ==
  IF s = <<>> THEN <<>>
  ELSE LET front == UniqueSeq(SubSeq(s, 1, Len(s) - 1))
           e == s[Len(s)]
       IN IF \E j \in 1..Len(front) : front[j] = e THEN front
          ELSE Append(front, e)

\* the cache key of validateSingleEmail
BulkCacheKey(e) == "bulk_" \o ToLower(e.text)

\* the strings of the model that the parser accepts
BulkSyntaxValid ==
  {e \in BulkInputValues : e.isString /\ validateRFC(e.text, ProbingOptions).valid}

\* what emailValidator.validate(email) may return for a string, reduced to
\* the fields the bulk code and these properties read: the parser's verdict
\* is computed, the network's answers are reduced to whether an MX was found,
\* and checks_performed to whether it holds "smtp" (smtp_checked), which
\* validate pushes when checkSMTP is on and an MX was found
BulkValidateResults(e, o) ==
  IF e \in BulkSyntaxValid
  THEN {[input |-> e, status |-> IF mx THEN "valid" ELSE "invalid",
         mx_found |-> mx,
         smtp_checked |-> o.checkSMTP /\ mx,
         reason |-> IF mx THEN "Email is valid and deliverable"
                    ELSE "No MX records found - email cannot be delivered"] :
        mx \in BOOLEAN}
  ELSE {[input |-> e, status |-> "invalid", mx_found |-> FALSE,
         smtp_checked |-> FALSE,
         reason |-> "Invalid email syntax"]}

\* the TypeError thrown by email.toLowerCase() for an element that is not a
\* string, as processBatch prints it
ToLowerCaseError(e) ==
  IF e.truthy THEN "TypeError: email.toLowerCase is not a function"
  ELSE "TypeError: Cannot read properties of " \o e.text
         \o " (reading 'toLowerCase')"

\* processBatch: the entry for a settled promise
SettledEntry(e, settlement) ==
  IF settlement.status = "fulfilled" THEN settlement.value
  ELSE [input |-> e, status |-> "error", mx_found |-> FALSE,
        reason |-> "Validation failed: " \o settlement.reason]

\* generateSummary: status_breakdown
StatusBreakdown(results) ==
  [st \in {results[j].status : j \in 1..Len(results)} |->
     Cardinality({j \in 1..Len(results) : results[j].status = st})]

\* generateSummary, lines 209-213: result.input.includes is called on every
\* truthy input, and throws when that input is not a string
SummaryThrows(results) ==
  \E j \in 1..Len(results) :
    results[j].input.truthy /\ ~results[j].input.isString

\* the object validateBatch returns
BulkReturnValue(b) ==
  [total |-> Len(b.emails),
   processed |-> Len(b.results),
   duplicates_removed |-> Len(b.emails) - Len(b.uniqueEmails),
   results |-> b.results,
   errors |-> b.errors,
   summary |-> [status_breakdown |-> StatusBreakdown(b.results)]]

InitBulk ==
  /\ impl = 1
  \* the array passed in, the options passed to the constructor, and
  \* parseInt(process.env.BATCH_SIZE): the variable is not set or holds a size
  /\ \E inputs \in UNION {[1..n -> BulkInputValues] : n \in 0..MaxInputs},
        u \in BulkUserOptions, env \in {NaN, MaxBatchSize} :
       /\ (u.batchSize # Unset => env = NaN)
       /\ bulk = [phase |-> "entered",
                  emails |-> inputs,
                  opts |-> BulkValidatorOptions(u, env),
                  uniqueEmails |-> <<>>,
                  i |-> 0,
                  batch |-> <<>>,
                  pending |-> {},
                  settled |-> <<>>,
                  results |-> <<>>,
                  errors |-> <<>>,
                  processed |-> 0]
       /\ options = BulkEmailValidatorOptions(BulkValidatorOptions(u, env))
  /\ email = ""
  /\ pc = "bulk"
  /\ parsed = NoParse
  /\ result = NoResult
  /\ proberCalls = 0
  /\ probe = ProbeIdle
  /\ cache = NoCache
  /\ previous = NoResult
  /\ dns = NoAnswer
  /\ detector = NoDetector

\* lines 40-48: deduplication.  toLowerCase is called on every element, so
\* an element that is not a string throws out of validateBatch
BulkDedup ==
  /\ bulk.phase = "entered"
  /\ IF bulk.opts.skipDuplicates
     THEN IF \E j \in 1..Len(bulk.emails) : ~bulk.emails[j].isString
          THEN bulk' = [bulk EXCEPT !.phase = "threw"]
          ELSE bulk' = [bulk EXCEPT
                          !.phase = "loop",
                          !.uniqueEmails =
                             UniqueSeq([j \in 1..Len(bulk.emails) |->
                                          LowerCased(bulk.emails[j])])]
     ELSE bulk' = [bulk EXCEPT !.phase = "loop", !.uniqueEmails = bulk.emails]
  /\ UNCHANGED <<impl, options, email, pc, parsed, result, proberCalls, probe,
                 cache, previous, dns, detector>>

\* the loop test holds: slice the batch and call processBatch, which calls
\* validateSingleEmail for every element before awaiting any.  Each call
\* runs up to its first await: it throws on a non-string, returns the cached
\* entry, or starts emailValidator.validate
BulkStartBatch ==
  /\ bulk.phase = "loop"
  /\ LessJS(bulk.i, Len(bulk.uniqueEmails))
  /\ LET b == Slice(bulk.uniqueEmails, bulk.i,
                    PlusJS(bulk.i, bulk.opts.batchSize))
         hit(e) == bulk.opts.enableCache /\ BulkCacheKey(e) \in DOMAIN cache.bulk
         early == {k \in 1..Len(b) : ~b[k].isString \/ hit(b[k])}
     IN bulk' = [bulk EXCEPT
                   !.phase = "await",
                   !.batch = b,
                   !.pending = (1..Len(b)) \ early,
                   !.settled =
                      [k \in early |->
                         IF ~b[k].isString
                         THEN [status |-> "rejected",
                               reason |-> ToLowerCaseError(b[k])]
                         ELSE [status |-> "fulfilled",
                               value |-> cache.bulk[BulkCacheKey(b[k])]]]]
  /\ UNCHANGED <<impl, options, email, pc, parsed, result, proberCalls, probe,
                 cache, previous, dns, detector>>

\* one of the validations in flight returns: validate never rejects, the
\* result is cached and the promise is fulfilled
BulkSettle ==
  /\ bulk.phase = "await"
  /\ \E k \in bulk.pending :
       \E r \in BulkValidateResults(bulk.batch[k], options) :
         /\ bulk' = [bulk EXCEPT
                       !.pending = @ \ {k},
                       !.settled = (k :> [status |-> "fulfilled", value |-> r])
                                     @@ @]
         /\ cache' = IF bulk.opts.enableCache
                     THEN [cache EXCEPT
                             !.bulk = (BulkCacheKey(bulk.batch[k]) :> r) @@ @]
                     ELSE cache
         /\ proberCalls' = IF ShouldProbe(options, r) THEN proberCalls + 1
                           ELSE proberCalls
  /\ UNCHANGED <<impl, options, email, pc, parsed, result, probe, previous,
                 dns, detector>>

\* Promise.allSettled resolves: lines 56-86 and the loop increment.  The
\* progress callback is the caller's code and may throw, which lands in the
\* catch block after the results were pushed
BulkCollect ==
  /\ bulk.phase = "await"
  /\ bulk.pending = {}
  /\ \E callbackThrows \in BOOLEAN :
       /\ callbackThrows => bulk.opts.progressCallback
       /\ bulk' = [bulk EXCEPT
                     !.phase = "loop",
                     !.results = @ \o [k \in 1..Len(bulk.batch) |->
                                         SettledEntry(bulk.batch[k],
                                                      bulk.settled[k])],
                     !.processed = @ + Len(bulk.batch),
                     !.errors = IF callbackThrows
                                THEN @ \o [k \in 1..Len(bulk.batch) |->
                                             [email |-> bulk.batch[k],
                                              error |-> "callback failed"]]
                                ELSE @,
                     !.i = PlusJS(@, bulk.opts.batchSize),
                     !.pending = {},
                     !.settled = <<>>]
  /\ UNCHANGED <<impl, options, email, pc, parsed, result, proberCalls, probe,
                 cache, previous, dns, detector>>

\* the loop test fails: lines 89-99.  generateSummary runs outside the try
\* block, so what it throws leaves validateBatch
BulkReturn ==
  /\ bulk.phase = "loop"
  /\ ~LessJS(bulk.i, Len(bulk.uniqueEmails))
  /\ IF SummaryThrows(bulk.results)
     THEN /\ bulk' = [bulk EXCEPT !.phase = "threw"]
          /\ result' = result
     ELSE /\ bulk' = [bulk EXCEPT !.phase = "returned"]
          /\ result' = BulkReturnValue(bulk)
  /\ UNCHANGED <<impl, options, email, pc, parsed, proberCalls, probe, cache,
                 previous, dns, detector>>

NextBulk ==
  \/ BulkDedup
  \/ BulkStartBatch
  \/ BulkSettle
  \/ BulkCollect
  \/ BulkReturn

SpecBulk == InitBulk /\ [][NextBulk]_vars

(***************************************************************************)
(* POST /validate-bulk twice: each request constructs a BulkValidator from *)
(* the options of its body and calls validateBatch; the cache of           *)
(* bulkValidator.js outlives the requests.  The second request sends the   *)
(* list of the first with options of its own.                              *)
(***************************************************************************)
InitBulkCalls ==
  /\ impl = 1
  /\ \E inputs \in UNION {[1..n -> {e \in BulkInputValues : e.isString}] :
                            n \in 1..MaxInputs},
        u \in {x \in BulkUserOptions :
                 /\ x.maxConcurrency = 1 /\ x.batchSize = MaxBatchSize
                 /\ ~x.progressCallback} :
       /\ bulk = [phase |-> "entered",
                  emails |-> inputs,
                  opts |-> BulkValidatorOptions(u, NaN),
                  uniqueEmails |-> <<>>,
                  i |-> 0,
                  batch |-> <<>>,
                  pending |-> {},
                  settled |-> <<>>,
                  results |-> <<>>,
                  errors |-> <<>>,
                  processed |-> 0]
       /\ options = BulkEmailValidatorOptions(BulkValidatorOptions(u, NaN))
  /\ email = ""
  /\ pc = "bulk"
  /\ parsed = NoParse
  /\ result = NoResult
  /\ proberCalls = 0
  /\ probe = ProbeIdle
  /\ cache = NoCache
  /\ previous = NoResult
  /\ dns = NoAnswer
  /\ detector = NoDetector

\* the first request was answered (previous keeps what validateBatch
\* returned); the next one constructs its BulkValidator and enters
\* validateBatch
BulkCallAgain ==
  /\ bulk.phase = "returned"
  /\ previous = NoResult
  /\ previous' = result
  /\ result' = NoResult
  /\ \E u \in {x \in BulkUserOptions :
                 /\ x.maxConcurrency = 1 /\ x.batchSize = MaxBatchSize
                 /\ ~x.progressCallback} :
       /\ bulk' = [phase |-> "entered",
                   emails |-> bulk.emails,
                   opts |-> BulkValidatorOptions(u, NaN),
                   uniqueEmails |-> <<>>,
                   i |-> 0,
                   batch |-> <<>>,
                   pending |-> {},
                   settled |-> <<>>,
                   results |-> <<>>,
                   errors |-> <<>>,
                   processed |-> 0]
       /\ options' = BulkEmailValidatorOptions(BulkValidatorOptions(u, NaN))
  /\ UNCHANGED <<impl, email, pc, parsed, proberCalls, probe, cache, dns,
                 detector>>

NextBulkCalls ==
  \/ NextBulk
  \/ BulkCallAgain

SpecBulkCalls == InitBulkCalls /\ [][NextBulkCalls]_vars

(***************************************************************************)
(* Single calls of checkMXRecords and of the parser, with the arguments    *)
(* and the resolver's answers drawn at the start                           *)
(***************************************************************************)
MaxMxRecords == 3

\* what the resolver may answer to one checkMXRecords call: resolveMx
\* rejects with an error code or yields a list of records, and resolve4
\* succeeds or not
MxLookups ==
  [mx : {[ok |-> FALSE, code |-> c, records |-> <<>>] :
           c \in {"ENODATA", "ENOTFOUND", "ESERVFAIL"}}
        \cup {[ok |-> TRUE, code |-> "", records |-> rs] :
                rs \in UNION {[1..n -> {[priority |-> 10,
                                         exchange |-> "mx.mailhost.io"],
                                        [priority |-> 20,
                                         exchange |-> "alt1.aspmx.l.google.com"],
                                        [priority |-> 5,
                                         exchange |-> "aspmx.l.google.com"]}] :
                              n \in 0..MaxMxRecords}},
   aOk : BOOLEAN]

\* addresses around the length limits: a local part of 63 to 65 letters, and
\* a domain of 250 to 256 characters made of labels of at most 63 letters
\* and the top-level label com
LengthBoundaryAddresses ==
  LET RECURSIVE Repeat(_, _)
      Repeat(c, n) == IF n = 0 THEN "" ELSE c \o Repeat(c, n - 1)
      RECURSIVE LabelsOfLength(_)
      LabelsOfLength(n) ==
        IF n <= MaxLabelLength THEN Repeat("a", n)
        ELSE Repeat("a", MaxLabelLength) \o "."
               \o LabelsOfLength(n - MaxLabelLength - 1)
  IN {Repeat("a", l) \o "@" \o LabelsOfLength(d - 4) \o ".com" :
        l \in 63..65, d \in 250..256}

InitCalls ==
  /\ impl = 1
  /\ options = ProbingOptions
  /\ \/ /\ pc = "checkMXRecords"
        /\ email = "john.doe@gmail.com"
        /\ dns \in MxLookups
        /\ parsed = parseEmail(email, ProbingOptions)
     \/ /\ pc = "validateRFC"
        /\ email \in LengthBoundaryAddresses
        /\ dns = NoAnswer
        /\ parsed = NoParse
  /\ result = NoResult
  /\ proberCalls = 0
  /\ probe = ProbeIdle
  /\ cache = NoCache
  /\ previous = NoResult
  /\ bulk = BulkIdle
  /\ detector = NoDetector

\* checkMXRecords(domain) on a validator whose cache has no entry for it
CallCheckMXRecords ==
  /\ pc = "checkMXRecords"
  /\ LET mxResult == checkMXRecords(dns.mx, dns.aOk) IN
       /\ result' = mxResult
       /\ cache' = IF mxResult.found
                   THEN [cache EXCEPT
                           !.mx = CacheSet(options, @, parsed.domain, mxResult)]
                   ELSE cache
  /\ pc' = "returned"
  /\ UNCHANGED <<impl, options, email, parsed, proberCalls, probe, previous,
                 bulk, dns, detector>>

\* rfcParser.validateRFC(email)
CallValidateRFC ==
  /\ pc = "validateRFC"
  /\ result' = validateRFC(email, options)
  /\ pc' = "returned"
  /\ UNCHANGED <<impl, options, email, parsed, proberCalls, probe, cache,
                 previous, bulk, dns, detector>>

NextCalls ==
  \/ CallCheckMXRecords
  \/ CallValidateRFC

SpecCalls == InitCalls /\ [][NextCalls]_vars

(***************************************************************************)
(* DisposableDetector instances over the cache of disposableDetector.js.   *)
(* The constructor starts loadDisposableDomains, which suspends at         *)
(* fs.readFile, and then fills disposableDomains with the built-in list;   *)
(* the read completes in a later turn of the event loop, so lookups and    *)
(* additions may run before it.  detector.file is the blocklist file       *)
(* (data/disposable_email_blocklist.conf, one domain per line),            *)
(* detector.added the domains handed to addDisposableDomain per instance,  *)
(* detector.returned what the last call returned.                          *)
(***************************************************************************)
MaxDetectors == 2

InitDetector ==
  /\ impl = 1
  /\ options = ProbingOptions
  /\ email = ""
  /\ pc = "detector"
  /\ parsed = NoParse
  /\ result = NoResult
  /\ proberCalls = 0
  /\ probe = ProbeIdle
  /\ cache = NoCache
  /\ previous = NoResult
  /\ bulk = BulkIdle
  /\ dns = NoAnswer
  /\ \E exists \in BOOLEAN :
       detector =
         [file |-> [exists |-> exists,
                    domains |-> {"0815.ru", "10minutemail.com"}],
          disposableDomains |-> [i \in 1..MaxDetectors |->
                                   knownDisposableDomains],
          loading |-> [i \in 1..MaxDetectors |-> TRUE],
          added |-> [i \in 1..MaxDetectors |-> {}],
          returned |-> <<>>]

\* fs.readFile settles: the list is cleared and refilled from the file, or,
\* the file missing, left as the constructor filled it
DetectorLoad(i) ==
  /\ pc = "detector"
  /\ detector.loading[i]
  /\ detector' =
       [detector EXCEPT
          !.loading[i] = FALSE,
          !.disposableDomains[i] =
             IF detector.file.exists THEN detector.file.domains ELSE @]
  /\ UNCHANGED <<impl, options, email, pc, parsed, result, proberCalls, probe,
                 cache, previous, bulk, dns>>

\* isDisposable(d) on instance i
DetectorLookup(i, d) ==
  /\ pc = "detector"
  /\ LET lookup == CachedIsDisposable(cache.disposable, d,
                                      detector.disposableDomains[i]) IN
       /\ cache' = [cache EXCEPT !.disposable = lookup.space]
       /\ detector' =
            [detector EXCEPT
               !.returned = <<[detector |-> i, domain |-> Trim(ToLower(d)),
                               verdict |-> lookup.verdict]>>]
  /\ UNCHANGED <<impl, options, email, pc, parsed, result, proberCalls, probe,
                 previous, bulk, dns>>

\* addDisposableDomain(d) on instance i: the domain joins the list and the
\* cache entry of that very domain is deleted
DetectorAdd(i, d) ==
  /\ pc = "detector"
  /\ LET normalizedDomain == Trim(ToLower(d)) IN
       /\ detector' =
            [detector EXCEPT
               !.disposableDomains[i] = @ \cup {normalizedDomain},
               !.added[i] = @ \cup {normalizedDomain},
               !.returned = <<>>]
       /\ cache' =
            [cache EXCEPT
               !.disposable =
                  [k \in DOMAIN @ \ {normalizedDomain} |-> @[k]]]
  /\ UNCHANGED <<impl, options, email, pc, parsed, result, proberCalls, probe,
                 previous, bulk, dns>>

NextDetector ==
  \E i \in 1..MaxDetectors :
    \/ DetectorLoad(i)
    \/ \E d \in {"0815.ru", "fresh-site.com", "mx.fresh-site.com"} :
         DetectorLookup(i, d)
    \/ \E d \in {"0815.ru", "fresh-site.com"} : DetectorAdd(i, d)

SpecDetector == InitDetector /\ [][NextDetector]_vars

C2_DisposableNeverValid ==
  (Returned /\ result.disposable) =>
    /\ result.status # "valid"
    /\ \/ result.status = "risky"
       \/ /\ result.status = "invalid"
          /\ result.reason \in {"Domain does not resolve",
                                 "Validation failed due to technical error"}

\* a disposable address went through the verdict step and came out risky
C2_Witness ==
  /\ Returned
  /\ result.disposable
  /\ result.status = "risky"
  /\ result.reason = "Disposable email address detected"

\* C3: with syntax checking enabled, an address the parser rejects makes
\* validate return straight from the syntax step: no later stage is entered,
\* and the result has syntax_valid = false, status invalid or error and
\* checks_performed = <<"syntax">>.
C3_ParserRejectReturnsAtOnce ==
  (options.checkSyntax /\ ~validateRFC(email, options).valid) =>
    /\ pc \in {"syntax", "returned"}
    /\ Returned =>
         /\ ~result.syntax_valid
         /\ result.status \in {"invalid", "error"}
         /\ result.checks_performed = <<"syntax">>

\* a rejected address has been returned with the parser's reason
C3_Witness ==
  /\ Returned
  /\ options.checkSyntax
  /\ ~validateRFC(email, options).valid
  /\ result.reason = validateRFC(email, options).reason
  /\ result.checks_performed = <<"syntax">>

\* C4: in every returned result, syntax_valid = false implies that
\* domain_valid, mx_found, disposable and typo_detected are false and that
\* status is invalid or error (as stated; fails when checkSyntax is off).
C4_SyntaxFalseClearsLaterFlags ==
  (Returned /\ ~result.syntax_valid) =>
    /\ ~result.domain_valid
    /\ ~result.mx_found
    /\ ~result.disposable
    /\ ~result.typo_detected
    /\ result.status \in {"invalid", "error"}

\* C5: a validation that reached the verdict step has the status of the
\* first matching row: disposable -> risky; blacklisted -> invalid; not
\* syntax_valid or not domain_valid -> invalid; not mx_found -> invalid;
\* score >= 85 (strict: 90) -> valid; score >= 65 (strict: 70) -> risky;
\* otherwise invalid (as stated; fails for the second definition).
C5_VerdictTable ==
  (Returned /\ \E i \in 1..Len(result.checks_performed) :
                   result.checks_performed[i] = "domain_health") =>
    result.status =
      IF result.disposable THEN "risky"
      ELSE IF result.domainHealth.blacklisted THEN "invalid"
      ELSE IF ~result.syntax_valid \/ ~result.domain_valid THEN "invalid"
      ELSE IF ~result.mx_found THEN "invalid"
      ELSE IF result.score >= (IF options.strictMode THEN 90 ELSE 85)
      THEN "valid"
      ELSE IF result.score >= (IF options.strictMode THEN 70 ELSE 65)
      THEN "risky"
      ELSE "invalid"

\* C6: in every returned result, short-circuit returns included, score is
\* what calculateScore computes from the returned record (as stated; fails
\* on the early returns, which leave score at 0).
C6_ScoreIsRecomputable ==
  Returned => result.score = calculateScore(result, options)

\* C7: a returned result with mx_found = false has smtp_deliverable = false
\* (as stated; the field is left null when the probe does not run).
C7_NoMxMeansNotDeliverable ==
  (Returned /\ ~result.mx_found) => result.smtp_deliverable = "false"

\* C8: testSMTPDeliverability is called only when checkSMTP is enabled and
\* mx_found is true, so no returned result has mx_found = false together
\* with smtp_deliverable = true.
C8_ProbeOnlyWithMx ==
  /\ proberCalls > 0 => (options.checkSMTP /\ result.mx_found)
  /\ (Returned /\ ~result.mx_found) => result.smtp_deliverable # "true"

\* the prober ran and reported the address deliverable
C8_Witness ==
  /\ Returned
  /\ proberCalls = 1
  /\ result.mx_found
  /\ result.smtp_deliverable = "true"

\* C9: in every returned result factors.format, factors.domain, factors.mx
\* and factors.smtp are booleans and factors.reputation and
\* factors.deliverability are integers in 0..100 (as stated; fails for
\* factors.smtp = null and factors.reputation = -20).
C9_FactorsWellTyped ==
  Returned =>
    /\ result.factors.format \in BOOLEAN
    /\ result.factors.domain \in BOOLEAN
    /\ result.factors.mx \in BOOLEAN
    /\ result.factors.smtp \in {"true", "false"}
    /\ result.factors.reputation \in 0..100
    /\ result.factors.deliverability \in 0..100

(***************************************************************************)
(* Properties of the SMTP dialogue (SpecSMTP)                              *)
(***************************************************************************)
\* C10: once the server has replied to RCPT TO for the target address, the
\* outcome the probe reports follows that reply: 250 gives deliverable =
\* true whatever happens in the catch-all step, 550 gives false, any other
\* reply gives null with the reply in the reason (as stated; fails when the
\* timer or a socket error ends the catch-all step).
C10_OutcomeFollowsRcptReply ==
  (probe.outcome # <<>> /\ probe.serverResponse # "") =>
    IF StartsWith(probe.serverResponse, "250")
    THEN probe.outcome[1].deliverable = "true"
    ELSE IF StartsWith(probe.serverResponse, "550")
    THEN probe.outcome[1].deliverable = "false"
    ELSE /\ probe.outcome[1].deliverable = "null"
         /\ probe.outcome[1].reason =
              "Uncertain - server response: " \o probe.serverResponse

\* C11: the commands written to the server are always a prefix of HELO,
\* MAIL FROM, RCPT TO target, RCPT TO random address; a command is written
\* only by the data handler on the expected reply (220, then 250 three
\* times), one at a time, and never after the probe has reported.
C11_CommandSequence ==
  /\ [](LET expected ==
             <<"HELO " \o smtpFromDomain,
               "MAIL FROM:<test@" \o smtpFromDomain \o ">",
               "RCPT TO:<" \o probe.email \o ">",
               "RCPT TO:<nonexistent-now@" \o probe.domain \o ">">>
        IN /\ Len(probe.written) <= 4
           /\ probe.written = SubSeq(expected, 1, Len(probe.written)))
  /\ [][Len(probe'.written) # Len(probe.written) =>
          /\ probe.outcome = <<>>
          /\ Len(probe'.written) = Len(probe.written) + 1
          /\ \E r \in SmtpReplies :
               /\ StartsWith(r, IF Len(probe.written) = 0 THEN "220" ELSE "250")
               /\ probe' = OnData(probe, r)]_vars

\* all four commands were written and the probe has reported
C11_Witness ==
  /\ Len(probe.written) = 4
  /\ probe.outcome # <<>>
  /\ probe.outcome[1].deliverable = "true"

\* C12: when the timer fires or the socket emits an error, the socket is
\* destroyed and the probe reports deliverable = false with a reason naming
\* the timeout or the error; once the probe has reported, the socket is
\* never open.
C12_TimeoutAndErrorTearDown ==
  /\ [](probe.outcome # <<>> => probe.socket \in {"none", "destroyed"})
  /\ [][ProbeTimeout =>
          /\ probe'.socket = "destroyed"
          /\ probe'.outcome # <<>>
          /\ probe'.outcome[1].deliverable = "false"
          /\ probe'.outcome[1].reason = "SMTP connection timeout"]_vars
  /\ [][ProbeError =>
          /\ probe'.socket = "destroyed"
          /\ probe'.outcome # <<>>
          /\ probe'.outcome[1].deliverable = "false"
          /\ StartsWith(probe'.outcome[1].reason, "SMTP connection error")]_vars

\* the timer fired in the middle of the dialogue and the probe reported it
C12_Witness ==
  /\ probe.timer = "fired"
  /\ probe.step = 2
  /\ probe.socket = "destroyed"
  /\ probe.outcome # <<>>
  /\ probe.outcome[1].reason = "SMTP connection timeout"

(***************************************************************************)
(* Stage order of EmailValidator.validate (Spec)                           *)
(***************************************************************************)
\* C13: checks_performed is at every moment a duplicate-free subsequence of
\* syntax, typos, disposable, domain, mx, smtp, domain_health, heuristics in
\* that order; a validation whose domain check ran and failed has returned
\* status invalid with "domain" as its last entry.
C13_StageOrder ==
  LET order == <<"syntax", "typos", "disposable", "domain", "mx", "smtp",
                 "domain_health", "heuristics">>
      c == result.checks_performed
      pos(x) == CHOOSE k \in 1..Len(order) : order[k] = x
  IN /\ \A i \in 1..Len(c) : \E k \in 1..Len(order) : order[k] = c[i]
     /\ \A i \in 1..Len(c) : \A j \in (i + 1)..Len(c) : pos(c[i]) < pos(c[j])
     /\ (Returned /\ ~result.domain_valid
            /\ \E i \in 1..Len(c) : c[i] = "domain") =>
          /\ result.status = "invalid"
          /\ c[Len(c)] = "domain"

\* a validation ran all eight stages
C13_Witness ==
  /\ Returned
  /\ result.checks_performed =
       <<"syntax", "typos", "disposable", "domain", "mx", "smtp",
         "domain_health", "heuristics">>

(***************************************************************************)
(* Properties of the caches (SpecCache)                                    *)
(***************************************************************************)
\* C16: when validate is called twice in a row for one address, with caching
\* enabled and every cached entry still live, the second call returns a
\* result equal to the first in every field (validation_time, the only field
\* allowed to differ, is not part of the modelled record), whatever the
\* first call found and whatever the resolver and the mail server answer
\* the second time
C16_CacheIdempotence ==
  (Returned /\ previous # NoResult) => result = previous

(***************************************************************************)
(* Properties of BulkValidator.validateBatch (SpecBulk)                    *)
(***************************************************************************)
\* C14: a failure while handling one element of the input array, a string
\* or not, with deduplication on or off, stays with that element:
\* validateBatch does not throw, and in what it returns every element that
\* is not a string has a result with status error whose reason carries the
\* failure message, while every string has a result that is not an error
C14_FailureConfinedToInput ==
  /\ bulk.phase # "threw"
  /\ bulk.phase = "returned" =>
       \A j \in 1..Len(result.results) :
         LET r == result.results[j] IN
           IF r.input.isString THEN r.status # "error"
           ELSE /\ r.status = "error"
                /\ r.reason = "Validation failed: " \o ToLowerCaseError(r.input)

\* the input array without the later case-insensitive repeats, every
\* element as the caller wrote it
RemainingInputs(s) ==
  SelectSeq([j \in 1..Len(s) |-> [at |-> j, e |-> s[j]]],
            LAMBDA x : \A j \in 1..(x.at - 1) :
                         LowerCased(s[j]) # LowerCased(x.e))

\* C15: results come back in input order whatever order the validations
\* finished in: with deduplication off results[i].input is inputs[i], and
\* with deduplication on it is the i-th input that remains after the
\* repeats are dropped, spelled as the caller supplied it
C15_ResultsInInputOrder ==
  bulk.phase = "returned" =>
    \A j \in 1..Len(result.results) :
      result.results[j].input =
        IF bulk.opts.skipDuplicates THEN RemainingInputs(bulk.emails)[j].e
        ELSE bulk.emails[j]

\* C17: unless the bulk options say checkSMTP: true, no validation of the
\* batch calls the SMTP prober
C17_BulkProbesOnlyOnRequest ==
  bulk.opts.checkSMTP # "true" => proberCalls = 0

RECURSIVE SumOver(_, _)
SumOver(f, keys) ==
  IF keys = {} THEN 0
  ELSE LET k == CHOOSE x \in keys : TRUE IN f[k] + SumOver(f, keys \ {k})

\* C18: in every value validateBatch returns, total is the number of
\* inputs, duplicates_removed is total less the number of case-insensitively
\* distinct inputs (0 with deduplication off), processed is the length of
\* results, total = processed + duplicates_removed + the length of errors,
\* and the counts of status_breakdown add up to processed
C18_CountersConsistent ==
  bulk.phase = "returned" =>
    /\ result.total = Len(bulk.emails)
    /\ result.duplicates_removed =
         IF bulk.opts.skipDuplicates
         THEN result.total - Len(RemainingInputs(bulk.emails))
         ELSE 0
    /\ result.processed = Len(result.results)
    /\ result.total =
         result.processed + result.duplicates_removed + Len(result.errors)
    /\ SumOver(result.summary.status_breakdown,
               DOMAIN result.summary.status_breakdown) = result.processed

\* C19: at no moment of validateBatch are more validations in flight than
\* the configured maxConcurrency
C19_InFlightWithinCeiling ==
  Cardinality(bulk.pending) <= bulk.opts.maxConcurrency

\* C20, as far as a finite run can refute it: once validateBatch has
\* returned, with batchSize configured positive or left out, every unique
\* input (compared without regard to case, as the cache and the
\* deduplication do) is the input of an entry of results or of errors
C20_ReturnCoversEveryInput ==
  bulk.phase = "returned" =>
    \A j \in 1..Len(bulk.uniqueEmails) :
      LET key == BulkCacheKey(bulk.uniqueEmails[j]) IN
        \/ \E k \in 1..Len(result.results) :
             BulkCacheKey(result.results[k].input) = key
        \/ \E k \in 1..Len(result.errors) :
             BulkCacheKey(result.errors[k].email) = key

(***************************************************************************)
(* Properties of single calls (SpecCalls)                                  *)
(***************************************************************************)
\* C23: checkMXRecords returns found = true with the records in ascending
\* priority when the domain has an MX record; found = true, score 60 and no
\* records when it has none (resolveMx yields an empty list or rejects with
\* ENODATA) but its A record resolves; and found = false only when the
\* domain has neither
C23_MxLookupWithFallback ==
  (pc = "returned" /\ dns # NoAnswer) =>
    LET hasMx == dns.mx.ok /\ Len(dns.mx.records) > 0
        noMx == \/ dns.mx.ok /\ Len(dns.mx.records) = 0
                \/ ~dns.mx.ok /\ dns.mx.code = "ENODATA"
    IN /\ hasMx =>
            /\ result.found
            /\ Len(result.records) = Len(dns.mx.records)
            /\ \A r \in {dns.mx.records[j] : j \in 1..Len(dns.mx.records)} :
                 Cardinality({j \in 1..Len(result.records) :
                                result.records[j] = r})
                   = Cardinality({j \in 1..Len(dns.mx.records) :
                                    dns.mx.records[j] = r})
            /\ \A j \in 1..(Len(result.records) - 1) :
                 result.records[j].priority <= result.records[j + 1].priority
       /\ (noMx /\ dns.aOk) =>
            /\ result.found
            /\ result.deliverabilityScore = 60
            /\ result.records = <<>>
       /\ ~result.found => ~hasMx /\ (noMx => ~dns.aOk)

\* C26: of the addresses that are well formed apart from their length, the
\* parser accepts one of 320 characters with a local part of 64, and rejects
\* every one of 321 characters and every one with a local part of 65
C26_LengthBoundaries ==
  (pc = "returned" /\ email \in LengthBoundaryAddresses) =>
    LET local == Len(Split(email, "@")[1]) IN
      /\ (Len(email) = MaxEmailLength /\ local = MaxLocalLength) => result.valid
      /\ Len(email) = MaxEmailLength + 1 => ~result.valid
      /\ local = MaxLocalLength + 1 => ~result.valid

(***************************************************************************)
(* Properties of the parser inside validate (Spec)                         *)
(***************************************************************************)
\* C24: with allowInternational on, an address whose domain has a label with
\* a character outside ASCII is accepted by the parser exactly when the
\* Punycode form of the domain passes the domain rules, and its result then
\* has is_international = true; the result of an address whose domain is
\* all ASCII has is_international = false
C24_InternationalDomains ==
  (Returned /\ options.allowInternational /\ CountChar(email, "@") = 1) =>
    LET domain == Split(email, "@")[2]
        accepted == validateRFC(email, options).valid
    IN IF toASCII(domain) # domain
       THEN /\ accepted <=> validateDomainPart(toASCII(domain)).valid
            /\ accepted => result.is_international
       ELSE ~result.is_international

\* C25: a result that went through the scoring step (every one that passed
\* the domain-health stage) has as its score the weighted sum of these terms
\* and no others, clamped to 0..100: 25 syntax_valid, 20 domain_valid,
\* 25 mx_found, 20 / 5 / 0 for smtp_deliverable true / null / false, 5 SPF,
\* 7 DMARC, 3 DKIM, less 40 disposable, 50 blacklisted, 15 role-based, 5 free
\* provider, 15 typo with a suggestion (50, 60, 25, 10, 25 under strict
\* scoring), 5 tls_supported, (domainHealth.reputation - 50) / 5, and
\* 10 is_business_email
C25_ScoreIsTheWeightedSum ==
  (Returned /\ \E j \in 1..Len(result.checks_performed) :
                 result.checks_performed[j] = "domain_health") =>
    LET r == result
        strict == options.strictScoring
        points ==
            (IF r.syntax_valid THEN 25 ELSE 0)
          + (IF r.domain_valid THEN 20 ELSE 0)
          + (IF r.mx_found THEN 25 ELSE 0)
          + (IF r.smtp_deliverable = "true" THEN 20
             ELSE IF r.smtp_deliverable = "null" THEN 5 ELSE 0)
          + (IF r.domainHealth.spf THEN 5 ELSE 0)
          + (IF r.domainHealth.dmarc THEN 7 ELSE 0)
          + (IF r.domainHealth.dkim THEN 3 ELSE 0)
          - (IF r.disposable THEN (IF strict THEN 50 ELSE 40) ELSE 0)
          - (IF r.domainHealth.blacklisted
             THEN (IF strict THEN 60 ELSE 50) ELSE 0)
          - (IF r.is_role_based THEN (IF strict THEN 25 ELSE 15) ELSE 0)
          - (IF r.is_free_provider THEN (IF strict THEN 10 ELSE 5) ELSE 0)
          - (IF r.typo_detected /\ r.suggestion # "" /\ r.suggestion # r.input
             THEN (IF strict THEN 25 ELSE 15) ELSE 0)
          + (IF r.tls_supported THEN 5 ELSE 0)
          + (IF r.is_business_email THEN 10 ELSE 0)
    IN r.score = Clamp100(RoundDiv(5 * points + (r.domainHealth.reputation - 50), 5))

\* C27: under default options an address whose domain is a known
\* misspelling (typo_detected with a suggestion that differs from the input)
\* is never returned with status valid, whatever the resolver, the mail
\* server and the domain-health lookups answer
C27_TypoNeverValid ==
  (/\ Returned
   /\ options \in CachingOptions
   /\ options.checkSMTP
   /\ result.typo_detected
   /\ result.suggestion # result.input) => result.status \in {"risky", "invalid"}

(***************************************************************************)
(* Termination of the SMTP probe (SpecSMTPFair)                            *)
(***************************************************************************)
\* C29: a probe that opened its connection eventually reports an outcome
\* and never a second one.  The server closing the connection, and a reply
\* to the banner, HELO or MAIL FROM stage that does not start with the
\* expected code, leave the step, the commands written and the outcome as
\* they are; and from those three stages the probe, unless the socket
\* raises an error, ends only by the timer, with deliverable = false
C29_ProbeReportsOnce ==
  /\ (probe.socket = "open") ~> (probe.outcome # <<>>)
  /\ [][probe.outcome # <<>> => probe'.outcome = probe.outcome]_vars
  /\ [][ProbeServerEnd =>
          /\ probe'.step = probe.step
          /\ probe'.written = probe.written
          /\ probe'.outcome = probe.outcome]_vars
  /\ [][\A r \in SmtpReplies :
          (/\ ProbeData
           /\ probe' = OnData(probe, r)
           /\ probe.step <= 2
           /\ ~StartsWith(r, IF probe.step = 0 THEN "220" ELSE "250")) =>
            /\ probe'.step = probe.step
            /\ probe'.written = probe.written
            /\ probe'.outcome = <<>>]_vars
  /\ [][(/\ probe.socket \in {"open", "ended"}
         /\ probe.step <= 2
         /\ probe'.outcome # <<>>
         /\ ~ProbeError) =>
            /\ ProbeTimeout
            /\ probe'.outcome[1].deliverable = "false"
            /\ probe'.outcome[1].reason = "SMTP connection timeout"]_vars

\* the server answered HELO with an unexpected code and the timer ended the
\* probe at that stage
C29_Witness ==
  /\ probe.step = 1
  /\ probe.events >= 2
  /\ probe.timer = "fired"
  /\ probe.outcome # <<>>
  /\ probe.outcome[1].deliverable = "false"

\* C21: when enableCache = false, a validation neither reads from nor writes
\* to any shared cache namespace (domain, mx, health, disposable, typo,
\* bulk): every step of the validation leaves every cache unchanged
C21_NoCacheUse ==
  [][~options.enableCache => cache' = cache]_vars

\* C22: every domain listed in the blocklist file is classified disposable
\* by every isDisposable call, however the asynchronous load interleaves
\* with the lookups: no call returns false for a domain of the file
C22_FileDomainsAlwaysDisposable ==
  (/\ pc = "detector"
   /\ detector.file.exists
   /\ detector.returned # <<>>
   /\ detector.returned[1].domain \in detector.file.domains)
    => detector.returned[1].verdict

\* C30: after addDisposableDomain(d) returned on a detector, isDisposable of
\* d and of any subdomain of d returns true on that detector, whatever was
\* cached before and whatever other instances looked up in between
C30_AddedDomainsDisposable ==
  (/\ pc = "detector"
   /\ detector.returned # <<>>
   /\ \E d \in detector.added[detector.returned[1].detector] :
         \/ detector.returned[1].domain = d
         \/ EndsWith(detector.returned[1].domain, "." \o d))
    => detector.returned[1].verdict

\* C28: a result served from the bulk cache was computed under the options
\* of the request that receives it: every entry validateBatch returns is a
\* result validate can produce for that address under the options of the
\* call, also when an earlier call used other options
C28_CachedResultUnderSameOptions ==
  (pc = "bulk" /\ bulk.phase = "returned") =>
    \A j \in 1..Len(result.results) :
      result.results[j].status # "error" =>
        result.results[j] \in
          BulkValidateResults(result.results[j].input, options)

====
